---- MODULE Spec2Model ----
(***************************************************************************)
(* A model of the subsetting engine of zhimiaox/subfont (export.go).       *)
(*                                                                         *)
(* A Font is a record of tables.  Three kinds of objects are reached       *)
(* through pointers or shared slices in the Go code and therefore live in  *)
(* heaps that every font of a run shares:                                  *)
(*   glyphRaw   - the raw bytes of each glyph description (glyf.descs[i]), *)
(*   subtables  - the cmapSubtable objects (map[string]*cmapSubtable),     *)
(*   nameRecs   - the nameRecord objects ([]*nameRecord).                  *)
(* A font holds the identities (glyph description ids, subtable names,     *)
(* name record ids); what a call writes through them is seen by every font *)
(* that holds the same identity.                                           *)
(***************************************************************************)
EXTENDS Integers, Sequences, FiniteSets, TLC

(***************************************************************************)
(* Bounds of the model.                                                    *)
(***************************************************************************)
\* longest rune list handed to Subset / SubsetKeepRunes (besides ScenarioRunes)
MaxRunes == 2
\* largest index set handed to SubsetKeepIndices
MaxKeep == 2
\* number of subsetting calls made one after the other, each on the font the
\* call before it returned
MaxCalls == 1

(***************************************************************************)
(* Integer widths of the Go types.                                         *)
(***************************************************************************)
\* uint16: GlyphIndex, offset16, the format-4 fields
U16 == 2 ^ 16
\* uint32 (CharCode, offset32, the format-12 fields): every uint32 value that
\* occurs here (a rune up to 0x10FFFF, a byte count, a group count) is far
\* below 2^32, so the conversion uint32(x) of such a value is x itself; the
\* one uint32 subtraction that can wrap is treated where it is made (RunEnd).

Min(a, b) == IF a <= b THEN a ELSE b

\* the half-open Go slice s[0:n] of a sequence
Slice(s, n) == SubSeq(s, 1, n)

\* the largest element of a finite set of naturals; 0 for the empty set
\* (the zero value the code's running maximum starts from)
SetMax(S) ==
    IF S = {} THEN 0 ELSE CHOOSE x \in S : \A y \in S : y <= x

\* the strictly increasing sequence of the elements of a finite set of naturals
SortedSeq(S) ==
    [k \in 1..Cardinality(S) |->
        CHOOSE x \in S : Cardinality({y \in S : y < x}) = k - 1]

Range(s) == {s[i] : i \in 1..Len(s)}

RECURSIVE FloorLog2(_)
\* floor(log2(n)) for n >= 1
FloorLog2(n) == IF n <= 1 THEN 0 ELSE 1 + FloorLog2(n \div 2)

\* a Go map: a function whose domain is the set of keys present
EmptyMap == [x \in {} |-> 0]
Has(m, k) == k \in DOMAIN m
Put(m, k, v) == [x \in (DOMAIN m) \cup {k} |-> IF x = k THEN v ELSE m[x]]

(***************************************************************************)
(* The cmap subtable codec: the run scan and the format 4 / format 12      *)
(* payloads that Subset and SubsetFirst build (the two functions hold the  *)
(* same code), and the expansion of a payload back into pairs.             *)
(***************************************************************************)

\* the last segment's endCode below which the terminal segment is appended
SentinelCode == 65535

\* The inner loop "for ; j < len(charcodes); j++": the first position after i at
\* which the charcodes (uint32) or the glyph indices (uint16) stop increasing
\* in lock-step with the position, or one past the end.  Positions are 1-based.
\* The uint32 difference charcodes[j]-charcodes[i] is the integer difference
\* modulo 2^32; both charcodes are below 2^21 and j-i is a list distance, so
\* it equals j-i exactly when the integer difference does.
RunEnd(charcodes, charcodeToGID, i) ==
    LET breaks == {j \in (i + 1)..Len(charcodes) :
                     \/ charcodes[j] - charcodes[i] # j - i
                     \/ (charcodeToGID[charcodes[j]]
                           - charcodeToGID[charcodes[i]]) % U16 # j - i}
    IN IF breaks = {} THEN Len(charcodes) + 1
       ELSE CHOOSE j \in breaks : \A k \in breaks : j <= k

RECURSIVE Runs(_, _, _)
\* The outer loop "for i < len(charcodes)": the runs <<i, j>> found from
\* position i on, each covering the positions i .. j-1.
Runs(charcodes, charcodeToGID, i) ==
    IF i > Len(charcodes) THEN << >>
    ELSE LET j == RunEnd(charcodes, charcodeToGID, i)
         IN << <<i, j>> >> \o Runs(charcodes, charcodeToGID, j)

\* searchRange = 2 * uint16(math.Pow(2, math.Floor(math.Log2(float64(segments)))))
\* (math.Log2(0) is -Inf and math.Pow(2, -Inf) is 0)
Format4SearchRange(segments) ==
    IF segments = 0 THEN 0
    ELSE (2 * ((2 ^ FloorLog2(segments)) % U16)) % U16

\* entrySelector = uint16(math.Log2(float64(searchRange) / 2.0)); for a
\* searchRange of 0 the operand is -Inf, which the amd64 and arm64 builds
\* both convert to 0
Format4EntrySelector(searchRange) ==
    IF searchRange < 2 THEN 0 ELSE FloorLog2(searchRange \div 2)

\* The segments appended for the runs, before the terminal segment.
Format4Segments(charcodes, charcodeToGID) ==
    LET runs == Runs(charcodes, charcodeToGID, 1)
    IN [s \in 1..Len(runs) |->
          LET i == runs[s][1]
              j == runs[s][2]
              startCode == charcodes[i] % U16
          IN [startCode |-> startCode,
              endCode |-> (startCode + ((j - i - 1) % U16)) % U16,
              idDelta |-> ((charcodeToGID[charcodes[i]] % U16)
                             - (charcodes[i] % U16)) % U16,
              idRangeOffset |-> 0]]

\* "if segments > 0 && newt.endCode[segments-1] < 65535" appends
\* {startCode 65535, endCode 65535, idDelta 1, idRangeOffset 0}
Format4WithSentinel(segs) ==
    IF Len(segs) > 0 /\ segs[Len(segs)].endCode < SentinelCode
    THEN Append(segs, [startCode |-> SentinelCode, endCode |-> SentinelCode,
                       idDelta |-> 1, idRangeOffset |-> 0])
    ELSE segs

\* The cmapSubtableFormat4 value built from a charcode list and the
\* charcode -> glyph index map it is looked up in.
BuildFormat4(charcodes, charcodeToGID, language) ==
    LET segs == Format4WithSentinel(Format4Segments(charcodes, charcodeToGID))
        segments == Len(segs)
        searchRange == Format4SearchRange(segments)
    IN [type |-> "cmapSubtableFormat4",
        length |-> (2 * 8 + 2 * 4 * segments) % U16,
        language |-> language,
        segCountX2 |-> (segments * 2) % U16,
        searchRange |-> searchRange,
        entrySelector |-> Format4EntrySelector(searchRange),
        rangeShift |-> (((segments * 2) % U16) - searchRange) % U16,
        startCode |-> [s \in 1..segments |-> segs[s].startCode],
        endCode |-> [s \in 1..segments |-> segs[s].endCode],
        idDelta |-> [s \in 1..segments |-> segs[s].idDelta],
        idRangeOffset |-> [s \in 1..segments |-> segs[s].idRangeOffset]]

\* The sequentialMapGroup values appended for the runs.
Format12Groups(charcodes, charcodeToGID) ==
    LET runs == Runs(charcodes, charcodeToGID, 1)
    IN [s \in 1..Len(runs) |->
          LET i == runs[s][1]
              j == runs[s][2]
          IN [startCharCode |-> charcodes[i],
              endCharCode |-> charcodes[i] + (j - i - 1),
              startGlyphID |-> charcodeToGID[charcodes[i]]]]

\* The cmapSubtableFormat12 value built from a charcode list and its map.
BuildFormat12(charcodes, charcodeToGID, language) ==
    LET groups == Format12Groups(charcodes, charcodeToGID)
    IN [type |-> "cmapSubtableFormat12",
        length |-> 2 * 2 + 3 * 4 + Len(groups) * 3 * 4,
        language |-> language,
        numGroups |-> Len(groups),
        groups |-> groups]

\* Expansion of a format-4 payload (idRangeOffset 0 throughout): every
\* charcode of startCode..endCode with glyph (charcode + idDelta) mod 65536.
ExpandFormat4(ctx) ==
    UNION {{<<c, (c + ctx.idDelta[s]) % U16>> :
               c \in ctx.startCode[s]..ctx.endCode[s]} :
           s \in 1..Len(ctx.startCode)}

\* Expansion of a format-12 payload: every charcode of a group with glyph
\* startGlyphID + (charcode - startCharCode).
ExpandFormat12(ctx) ==
    UNION {{<<c, ctx.groups[s].startGlyphID + (c - ctx.groups[s].startCharCode)>> :
               c \in ctx.groups[s].startCharCode..ctx.groups[s].endCharCode} :
           s \in 1..Len(ctx.groups)}

\* the pairs of a charcode -> glyph index map
Pairs(m) == {<<c, m[c]>> : c \in DOMAIN m}

(***************************************************************************)
(* The table model.                                                        *)
(***************************************************************************)

\* a table that is absent (a nil pointer in the font struct)
NoCmap == [present |-> FALSE, version |-> 0, numTables |-> 0,
           subtableKeys |-> << >>, subtables |-> {}]
NoName == [present |-> FALSE, nameRecords |-> << >>]
NoPost == [present |-> FALSE, version |-> 0, numGlyphs |-> 0,
           glyphNameIndex |-> << >>, offsets |-> << >>, glyphNames |-> << >>]

\* the raw bytes of a glyph description; the first is the contour count,
\* negative for a composite glyph, whose remaining bytes name its components
NilRaw == << >>

\* A charcode -> glyph index map given as a set of pairs.
MapOf(pairs) ==
    [c \in {p[1] : p \in pairs} |-> (CHOOSE p \in pairs : p[1] = c)[2]]

\* A cmapSubtable as parsing leaves it: the decoded maps of the pairs, the
\* charcodes in increasing order, and the format's payload.
Subtable(format, platformID, encodingID, charcodes, glyphs, ctx) ==
    [format |-> format, platformID |-> platformID, encodingID |-> encodingID,
     cmap |-> glyphs,
     runes |-> charcodes,
     charcodes |-> charcodes,
     charcodeToGID |-> glyphs,
     ctx |-> ctx]

\* a format 4 / format 12 subtable holding the given pairs
Subtable4(platformID, encodingID, pairs) ==
    Subtable(4, platformID, encodingID, SortedSeq({p[1] : p \in pairs}), MapOf(pairs),
             BuildFormat4(SortedSeq({p[1] : p \in pairs}), MapOf(pairs), 0))
Subtable12(platformID, encodingID, pairs) ==
    Subtable(12, platformID, encodingID, SortedSeq({p[1] : p \in pairs}), MapOf(pairs),
             BuildFormat12(SortedSeq({p[1] : p \in pairs}), MapOf(pairs), 0))

\* number of entries of a format 0 glyphIDArray (one per byte charcode)
Format0Len == 256

\* a format 0 subtable: charcode i (0-based) maps to glyphIDArray[i]
Subtable0(platformID, encodingID, pairs) ==
    LET arr == [i \in 1..Format0Len |->
                  IF (i - 1) \in {p[1] : p \in pairs}
                  THEN MapOf(pairs)[i - 1] ELSE 0]
    IN Subtable(0, platformID, encodingID,
                [i \in 1..Format0Len |-> i - 1],
                [c \in 0..(Format0Len - 1) |-> arr[c + 1]],
                [type |-> "cmapSubtableFormat0", length |-> 262, language |-> 0,
                 glyphIDArray |-> arr])

\* a format 6 subtable: charcode firstCode + i maps to glyphIDArray[i]
Subtable6(platformID, encodingID, firstCode, arr) ==
    Subtable(6, platformID, encodingID,
             [i \in 1..Len(arr) |-> firstCode + i - 1],
             [c \in firstCode..(firstCode + Len(arr) - 1) |-> arr[c - firstCode + 1]],
             [type |-> "cmapSubtableFormat6", length |-> 10 + 2 * Len(arr),
              language |-> 0, firstCode |-> firstCode, entryCount |-> Len(arr),
              glyphIDArray |-> arr])

RECURSIVE RunningSum(_, _, _)
\* offsets[i+1] = offsets[i] + step(i), from a first offset; the 16-bit sums
\* wrap, the 32-bit sums of the byte counts here do not reach 2^32
RunningSum(first, steps, isShort) ==
    IF steps = << >> THEN <<first>>
    ELSE LET before == RunningSum(first, Slice(steps, Len(steps) - 1), isShort)
             next == before[Len(before)] + steps[Len(steps)]
         IN Append(before, IF isShort THEN next % U16 ELSE next)

\* a loca table whose short offsets advance by the byte count, not its half
LocaForUnhalved(isShort, first, raws) ==
    IF isShort
    THEN [offsetsShort |->
            RunningSum(first, [i \in 1..Len(raws) |-> Len(raws[i]) % U16], TRUE),
          offsetsLong |-> << >>]
    ELSE [offsetsShort |-> << >>,
          offsetsLong |->
            RunningSum(first, [i \in 1..Len(raws) |-> Len(raws[i])], FALSE)]

\* a loca table that lacks the offset closing the last glyph
LocaForWithoutEnd(isShort, first, raws) ==
    IF isShort
    THEN [offsetsShort |->
            RunningSum(first, [i \in 1..(Len(raws) - 1) |-> (Len(raws[i]) % U16) \div 2], TRUE),
          offsetsLong |-> << >>]
    ELSE [offsetsShort |-> << >>,
          offsetsLong |->
            RunningSum(first, [i \in 1..(Len(raws) - 1) |-> Len(raws[i])], FALSE)]

\* "Update loca offsets": the loca table of a glyph list; short offsets
\* (indexToLocFormat 0) advance by offset16(len(raw))/2, long ones by
\* offset32(len(raw)); only the array of the format in use is made.
LocaFor(isShort, first, raws) ==
    IF isShort
    THEN [offsetsShort |->
            RunningSum(first, [i \in 1..Len(raws) |-> (Len(raws[i]) % U16) \div 2], TRUE),
          offsetsLong |-> << >>]
    ELSE [offsetsShort |-> << >>,
          offsetsLong |->
            RunningSum(first, [i \in 1..Len(raws) |-> Len(raws[i])], FALSE)]

\* the offsets of the format in use
ActiveOffsets(f) ==
    IF f.indexToLocFormat = 0 THEN f.loca.offsetsShort ELSE f.loca.offsetsLong

\* the zero value font{}: every table absent
NilFont ==
    [passthrough |-> "nil", indexToLocFormat |-> 0, numGlyphs |-> 0,
     numberOfHMetrics |-> 0, hMetrics |-> << >>, leftSideBearings |-> << >>,
     descs |-> << >>, loca |-> [offsetsShort |-> << >>, offsetsLong |-> << >>],
     post |-> NoPost, cmap |-> NoCmap, name |-> NoName]

(***************************************************************************)
(* GetCmap and LookupRunes.  Every operation below is a function of the    *)
(* receiver f and of the heaps it is evaluated in.                         *)
(***************************************************************************)

\* GetCmap(platformID, encodingID): the decoded map of the subtable with these
\* ids, as a list of at most one map (empty where the code returns nil).  No
\* parsed font here holds two subtables with the same ids, so the order in
\* which the Go map is ranged over does not matter.
GetCmap(f, subts, platformID, encodingID) ==
    LET hits == {k \in f.cmap.subtables :
                   /\ subts[k].platformID = platformID
                   /\ subts[k].encodingID = encodingID}
    IN IF ~f.cmap.present \/ hits = {} THEN << >>
       ELSE <<subts[CHOOSE k \in hits : TRUE].cmap>>

\* the maps in the order (1,0), (3,1), (0,3), (3,10)
LookupMapsMacFirst(f, subts) ==
    GetCmap(f, subts, 1, 0) \o GetCmap(f, subts, 3, 1)
        \o GetCmap(f, subts, 0, 3) \o GetCmap(f, subts, 3, 10)

\* the maps in the search order (3,1), (1,0), (0,3), (3,10), nil ones skipped
LookupMaps(f, subts) ==
    GetCmap(f, subts, 3, 1) \o GetCmap(f, subts, 1, 0)
        \o GetCmap(f, subts, 0, 3) \o GetCmap(f, subts, 3, 10)

\* the positions of the maps that hold rune r
MapsWith(maps, r) == {i \in 1..Len(maps) : r \in DOMAIN maps[i]}

\* the glyph index of r in the first map that holds it
FirstHit(maps, r) ==
    maps[CHOOSE i \in MapsWith(maps, r) : \A j \in MapsWith(maps, r) : i <= j][r]

RECURSIVE RunesMapWithMisses(_, _)
\* a loop that enters a rune found in no map under glyph index 0
RunesMapWithMisses(maps, runes) ==
    IF runes = << >> THEN EmptyMap
    ELSE LET before == RunesMapWithMisses(maps, Slice(runes, Len(runes) - 1))
             r == runes[Len(runes)]
         IN IF MapsWith(maps, r) = {} THEN Put(before, 0, r)
            ELSE Put(before, FirstHit(maps, r), r)

RECURSIVE RunesMap(_, _)
\* runesMap after the loop over the runes: glyph index -> the rune that was
\* looked up last among those resolved to it
RunesMap(maps, runes) ==
    IF runes = << >> THEN EmptyMap
    ELSE LET before == RunesMap(maps, Slice(runes, Len(runes) - 1))
             r == runes[Len(runes)]
         IN IF MapsWith(maps, r) = {} THEN before
            ELSE Put(before, FirstHit(maps, r), r)

\* LookupRunes: indices is {0} and the glyph indices found, sorted and
\* compacted; runes[k] is runesMap[indices[k]], the zero rune where absent.
LookupRunes(f, subts, runes) ==
    LET runesMap == RunesMap(LookupMaps(f, subts), runes)
        indices == SortedSeq({0} \cup DOMAIN runesMap)
    IN [indices |-> indices,
        runes |-> [k \in 1..Len(indices) |->
                     IF Has(runesMap, indices[k]) THEN runesMap[indices[k]] ELSE 0]]

(***************************************************************************)
(* hmtx optimisation (the method optimizeHmtx is not part of the sources   *)
(* at hand; it is modelled from its description: trailing entries that     *)
(* repeat the last advance width are collapsed into left side bearings).   *)
(***************************************************************************)
RECURSIVE KeptHMetrics(_)
\* the number of entries kept: all but the trailing repeats of the last width
KeptHMetrics(hMetrics) ==
    IF Len(hMetrics) < 2 THEN Len(hMetrics)
    ELSE IF hMetrics[Len(hMetrics) - 1].advanceWidth = hMetrics[Len(hMetrics)].advanceWidth
         THEN KeptHMetrics(Slice(hMetrics, Len(hMetrics) - 1))
         ELSE Len(hMetrics)

optimizeHmtx(f) ==
    LET keep == KeptHMetrics(f.hMetrics)
    IN [f EXCEPT
          !.hMetrics = Slice(f.hMetrics, keep),
          !.leftSideBearings =
              [i \in 1..(Len(f.hMetrics) - keep) |-> f.hMetrics[keep + i].lsb]
                  \o f.leftSideBearings,
          !.numberOfHMetrics = keep]

(***************************************************************************)
(* PruneTables(tables...).                                                 *)
(***************************************************************************)

RECURSIVE PrunedWithDependents(_, _)
\* a loop in which pruning "cmap" takes the post table along
PrunedWithDependents(f, tables) ==
    IF tables = << >> THEN f
    ELSE LET g == PrunedWithDependents(f, Slice(tables, Len(tables) - 1))
             table == tables[Len(tables)]
         IN CASE table = "cmap" -> [g EXCEPT !.cmap = NoCmap, !.post = NoPost]
              [] table = "post" -> [g EXCEPT !.post = NoPost]
              [] table = "name" -> [g EXCEPT !.name = NoName]
              [] OTHER -> g

RECURSIVE Pruned(_, _)
\* the receiver after the loop over tables
Pruned(f, tables) ==
    IF tables = << >> THEN f
    ELSE LET g == Pruned(f, Slice(tables, Len(tables) - 1))
             table == tables[Len(tables)]
         IN CASE table = "cmap" -> [g EXCEPT !.cmap = NoCmap]
              [] table = "post" -> [g EXCEPT !.post = NoPost]
              [] table = "name" -> [g EXCEPT !.name = NoName]
              [] OTHER -> g

(***************************************************************************)
(* Subset(runes).                                                          *)
(***************************************************************************)

\* The maps Subset stores in every subtable: "for gid, cc := range runes"
\* sets cmap[cc] = GlyphIndex(gid); a rune that occurs twice keeps the last.
RenumberedMap(runes) ==
    [c \in Range(runes) |->
        ((CHOOSE k \in 1..Len(runes) :
            /\ runes[k] = c
            /\ \A j \in 1..Len(runes) : runes[j] = c => j <= k) - 1) % U16]

\* The cmapSubtable object after Subset's loop body: decoded maps and lists
\* replaced, the payload rebuilt for format 4 and format 12 only.
SubsetSubtable(subt, runes) ==
    LET m == RenumberedMap(runes)
    IN [subt EXCEPT
          !.cmap = m,
          !.charcodeToGID = m,
          !.runes = runes,
          !.charcodes = runes,
          !.ctx = CASE subt.ctx.type = "cmapSubtableFormat4" ->
                         BuildFormat4(runes, m, subt.ctx.language)
                    [] subt.ctx.type = "cmapSubtableFormat12" ->
                         BuildFormat12(runes, m, subt.ctx.language)
                    [] OTHER -> subt.ctx]

\* a Subset that keeps every subtable name of the receiver
SubsetKeysOfAllFormats(f, subts) == f.cmap.subtableKeys

\* the subtable names Subset puts into the new cmap, in the receiver's order
SubsetKeys(f, subts) ==
    SelectSeq(f.cmap.subtableKeys,
              LAMBDA k : subts[k].ctx.type \in {"cmapSubtableFormat4",
                                                "cmapSubtableFormat12"})

\* the subtables heap after Subset: every subtable the receiver lists is
\* written, with the rune list LookupRunes returned (it replaces the argument)
SubsetSubtables(f, subts, runes) ==
    LET looked == LookupRunes(f, subts, runes).runes
    IN [k \in DOMAIN subts |->
          IF f.cmap.present /\ k \in Range(f.cmap.subtableKeys)
          THEN SubsetSubtable(subts[k], looked) ELSE subts[k]]

\* the name records heap after Subset: "record.data = []byte{0};
\* record.offset = offset16(i); record.length = 1" through the shared pointers
SubsetNameRecs(f, recs) ==
    [id \in 1..Len(recs) |->
        IF f.name.present /\ (id - 1) \in Range(f.name.nameRecords)
        THEN LET i == CHOOSE j \in 1..Len(f.name.nameRecords) :
                         f.name.nameRecords[j] = id - 1
             IN [data |-> <<0>>, offset |-> (i - 1) % U16, length |-> 1]
        ELSE recs[id]]

\* the post table of Subset's result
SubsetPost(f, indices) ==
    LET numGlyphs == Len(indices)
        p == f.post
    IN IF ~p.present THEN NoPost
       ELSE [p EXCEPT
               !.numGlyphs = IF p.numGlyphs > 0 THEN numGlyphs % U16 ELSE p.numGlyphs,
               !.glyphNameIndex =
                   IF Len(p.glyphNameIndex) > numGlyphs
                   THEN [k \in 1..numGlyphs |-> (k - 1) % U16]
                   ELSE p.glyphNameIndex,
               !.offsets =
                   IF Len(p.offsets) > numGlyphs THEN Slice(p.offsets, numGlyphs)
                   ELSE p.offsets,
               !.glyphNames =
                   IF Len(p.glyphNames) > numGlyphs
                   THEN [k \in 1..numGlyphs |-> p.glyphNames[indices[k] + 1]]
                   ELSE p.glyphNames]

\* Subset panics (index out of range) after it has written the cmap subtables
\* and the name records, when a looked-up glyph index lies past the
\* receiver's glyph names (line 716) or glyph descriptions (line 726).
SubsetPanics(f, subts, runes) ==
    LET indices == LookupRunes(f, subts, runes).indices
    IN \/ /\ f.post.present
          /\ Len(f.post.glyphNames) > Len(indices)
          /\ \E k \in 1..Len(indices) : indices[k] >= Len(f.post.glyphNames)
       \/ \E k \in 1..Len(indices) : indices[k] >= Len(f.descs)

\* glyph descriptions taken from the front of the receiver's list instead of
\* from the looked-up indices
SubsetDescsFromFront(f, indices) == Slice(f.descs, Len(indices))

\* "for _, gid := range indices { newfnt.glyf.descs = append(newfnt.glyf.descs,
\* f.font.glyf.descs[gid]) }": the glyph descriptions of Subset's result
SubsetDescs(f, indices) == [k \in 1..Len(indices) |-> f.descs[indices[k] + 1]]

\* the font Subset returns
SubsetFont(f, raws, subts, runes) ==
    LET looked == LookupRunes(f, subts, runes)
        indices == looked.indices
        numGlyphs == Len(indices)
        keys == SubsetKeys(f, subts)
        descs == SubsetDescs(f, indices)
        lastMetric == (Len(f.hMetrics) - 1) % U16
    IN optimizeHmtx(
       [passthrough |-> f.passthrough,
        indexToLocFormat |-> f.indexToLocFormat,
        numGlyphs |-> numGlyphs % U16,
        numberOfHMetrics |-> Min(f.numberOfHMetrics, numGlyphs % U16),
        hMetrics |-> [k \in 1..numGlyphs |-> f.hMetrics[Min(indices[k], lastMetric) + 1]],
        leftSideBearings |-> << >>,
        descs |-> descs,
        loca |-> LocaFor(f.indexToLocFormat = 0, ActiveOffsets(f)[1],
                         [k \in 1..numGlyphs |-> raws[descs[k] + 1]]),
        post |-> SubsetPost(f, indices),
        cmap |-> IF ~f.cmap.present THEN NoCmap
                 ELSE [present |-> TRUE, version |-> f.cmap.version,
                       numTables |-> Cardinality(Range(keys)) % U16,
                       subtableKeys |-> keys, subtables |-> Range(keys)],
        name |-> f.name])

(***************************************************************************)
(* SubsetFirst(numGlyphs).                                                 *)
(***************************************************************************)

\* a test that sends a request for exactly the receiver's glyph count down
\* the rebuilding path
SubsetFirstIsNoopStrict(f, numGlyphs) == f.numGlyphs < numGlyphs

\* "if int(f.maxp.numGlyphs) <= numGlyphs": the receiver itself is returned
SubsetFirstIsNoop(f, numGlyphs) == f.numGlyphs <= numGlyphs

\* the charcodes SubsetFirst hands to the format 4 / format 12 builder: those
\* of charcodeToGID whose glyph index is below numGlyphs, sorted
KeptCharcodes(subt, numGlyphs) ==
    SortedSeq({cc \in DOMAIN subt.charcodeToGID : subt.charcodeToGID[cc] < numGlyphs})

\* case cmapSubtableFormat0: "if i > numGlyphs { t.glyphIDArray[i] = 0 }",
\* i being the 0-based position in the array.  The array is a slice (its
\* declaration is not part of the sources at hand; the write is described as
\* made in place), so the write through the copy t lands in the payload.
Format0Trimmed(arr, numGlyphs) ==
    [i \in 1..Len(arr) |-> IF i - 1 > numGlyphs THEN 0 ELSE arr[i]]

\* case cmapSubtableFormat6: "if int(t.glyphIDArray[i]) >= numGlyphs
\* { t.glyphIDArray[i] = 0 }"
Format6Trimmed(arr, numGlyphs) ==
    [i \in 1..Len(arr) |-> IF arr[i] >= numGlyphs THEN 0 ELSE arr[i]]

\* The cmapSubtable object after SubsetFirst's loop body: the payload is
\* rebuilt (format 4, 12) or written in place (format 0, 6); the decoded maps
\* and lists are left as they are.
SubsetFirstSubtable(subt, numGlyphs) ==
    [subt EXCEPT
       !.ctx = CASE subt.ctx.type = "cmapSubtableFormat0" ->
                      [subt.ctx EXCEPT
                         !.glyphIDArray = Format0Trimmed(subt.ctx.glyphIDArray, numGlyphs)]
                 [] subt.ctx.type = "cmapSubtableFormat4" ->
                      BuildFormat4(KeptCharcodes(subt, numGlyphs), subt.charcodeToGID,
                                   subt.ctx.language)
                 [] subt.ctx.type = "cmapSubtableFormat6" ->
                      [subt.ctx EXCEPT
                         !.glyphIDArray = Format6Trimmed(subt.ctx.glyphIDArray, numGlyphs)]
                 [] subt.ctx.type = "cmapSubtableFormat12" ->
                      BuildFormat12(KeptCharcodes(subt, numGlyphs), subt.charcodeToGID,
                                    subt.ctx.language)
                 [] OTHER -> subt.ctx]

\* the subtables heap after SubsetFirst
SubsetFirstSubtables(f, subts, numGlyphs) ==
    IF SubsetFirstIsNoop(f, numGlyphs) THEN subts
    ELSE [k \in DOMAIN subts |->
            IF f.cmap.present /\ k \in Range(f.cmap.subtableKeys)
            THEN SubsetFirstSubtable(subts[k], numGlyphs) ELSE subts[k]]

\* the hmtx lists of SubsetFirst's result, before optimizeHmtx
SubsetFirstHmtx(f, numGlyphs) ==
    IF Len(f.hMetrics) > numGlyphs
    THEN [hMetrics |-> Slice(f.hMetrics, numGlyphs), leftSideBearings |-> << >>]
    ELSE [hMetrics |-> f.hMetrics,
          leftSideBearings |->
              Slice(f.leftSideBearings,
                    Min(numGlyphs - Len(f.hMetrics), Len(f.leftSideBearings)))]

\* the post table of SubsetFirst's result
SubsetFirstPost(f, numGlyphs) ==
    LET p == f.post
    IN IF ~p.present THEN NoPost
       ELSE [p EXCEPT
               !.numGlyphs = IF p.numGlyphs > 0 THEN numGlyphs % U16 ELSE p.numGlyphs,
               !.glyphNameIndex = IF Len(p.glyphNameIndex) > numGlyphs
                                  THEN Slice(p.glyphNameIndex, numGlyphs)
                                  ELSE p.glyphNameIndex,
               !.offsets = IF Len(p.offsets) > numGlyphs
                           THEN Slice(p.offsets, numGlyphs) ELSE p.offsets,
               !.glyphNames = IF Len(p.glyphNames) > numGlyphs
                              THEN Slice(p.glyphNames, numGlyphs) ELSE p.glyphNames]

\* The font SubsetFirst returns, for 0 <= numGlyphs (a negative count makes
\* the slice expressions panic before anything is written).
SubsetFirstFont(f, raws, numGlyphs) ==
    IF SubsetFirstIsNoop(f, numGlyphs) THEN f
    ELSE LET hm == SubsetFirstHmtx(f, numGlyphs)
             descs == Slice(f.descs, numGlyphs)
         IN optimizeHmtx(
            [passthrough |-> f.passthrough,
             indexToLocFormat |-> f.indexToLocFormat,
             numGlyphs |-> numGlyphs % U16,
             numberOfHMetrics |-> IF f.numberOfHMetrics > numGlyphs % U16
                                  THEN numGlyphs % U16 ELSE f.numberOfHMetrics,
             hMetrics |-> hm.hMetrics,
             leftSideBearings |-> hm.leftSideBearings,
             descs |-> descs,
             loca |-> LocaFor(f.indexToLocFormat = 0, ActiveOffsets(f)[1],
                              [k \in 1..Len(descs) |-> raws[descs[k] + 1]]),
             post |-> SubsetFirstPost(f, numGlyphs),
             cmap |-> IF ~f.cmap.present THEN NoCmap
                      ELSE [present |-> TRUE, version |-> f.cmap.version,
                            numTables |-> Cardinality(Range(f.cmap.subtableKeys)) % U16,
                            subtableKeys |-> f.cmap.subtableKeys,
                            subtables |-> Range(f.cmap.subtableKeys)],
             name |-> f.name])

(***************************************************************************)
(* SubsetKeepIndices(indices) and SubsetKeepRunes(runes).                  *)
(***************************************************************************)

\* glyf.GetComponents(gid) (the method is not part of the sources at hand; it
\* is modelled from its description): the component glyph indices of a
\* composite glyph, none for a simple or an empty glyph.
GetComponents(f, raws, gid) ==
    LET raw == raws[f.descs[gid + 1] + 1]
    IN IF raw # NilRaw /\ raw[1] < 0 THEN {raw[i] : i \in 2..Len(raw)} ELSE {}

\* GetComponents fails for a glyph index past the glyph descriptions
GetComponentsFails(f, gid) == gid >= Len(f.descs)

\* a single round: the components of the glyphs asked for, but not theirs
ExpandOneRound(f, raws, included, toscan) ==
    included \cup UNION {GetComponents(f, raws, gid) :
                            gid \in {g \in toscan : ~GetComponentsFails(f, g)}}

RECURSIVE Expand(_, _, _, _)
\* The loop "for len(toscan) > 0": gidIncludedMap after the rounds that start
\* with the scan list toscan.  A round reads the components of every glyph on
\* the list (glyphs it cannot read are left to ExpandFails) and puts those
\* not yet included on the next list.
Expand(f, raws, included, toscan) ==
    IF toscan = {} THEN included
    ELSE LET newgids == UNION {GetComponents(f, raws, gid) :
                                 gid \in {g \in toscan : ~GetComponentsFails(f, g)}}
                           \ included
         IN Expand(f, raws, included \cup newgids, newgids)

RECURSIVE ScanFrom(_, _, _, _)
\* The scan lists of the rounds of "for len(toscan) > 0", in order, from the
\* round that starts with toscan on; included is gidIncludedMap.  The round
\* in which GetComponents fails is the last.
ScanFrom(f, raws, included, toscan) ==
    IF toscan = {} THEN << >>
    ELSE IF \E gid \in toscan : GetComponentsFails(f, gid) THEN <<toscan>>
    ELSE LET newgids == UNION {GetComponents(f, raws, gid) : gid \in toscan}
                           \ included
         IN <<toscan>> \o ScanFrom(f, raws, included \cup newgids, newgids)

\* scan lists of a loop that starts with nothing entered in gidIncludedMap
ScanListsUnmarked(f, raws, indices) == ScanFrom(f, raws, {}, indices)

\* the scan lists of SubsetKeepIndices(indices): the indices are entered in
\* gidIncludedMap and make the first list
ScanLists(f, raws, indices) == ScanFrom(f, raws, indices, indices)

\* "return nil, err": some glyph put on a scan list cannot be read
ExpandFails(f, raws, indices) ==
    \E gid \in Expand(f, raws, indices, indices) : GetComponentsFails(f, gid)

\* the glyph raw heap after "newfnt.glyf.descs[i].raw = nil" for every glyph
\* index not included; the descriptions are those of the receiver
ClearedRaws(f, raws, included) ==
    [id \in 1..Len(raws) |->
        IF \E i \in 1..Len(f.descs) : f.descs[i] = id - 1 /\ (i - 1) \notin included
        THEN NilRaw ELSE raws[id]]

\* newfnt before the final SubsetFirst: every table copied, hmtx optimised,
\* loca recomputed over the cleared glyphs
KeepIndicesCopy(f, raws, included) ==
    LET cleared == ClearedRaws(f, raws, included)
    IN [optimizeHmtx(f) EXCEPT
          !.loca = LocaFor(f.indexToLocFormat = 0, ActiveOffsets(f)[1],
                           [k \in 1..Len(f.descs) |-> cleared[f.descs[k] + 1]])]

\* a glyph count that stops at the largest included index
MaxNeededNumShort(included) == SetMax(included)

\* "maxNeededNum := int(maxgid) + 1"
MaxNeededNum(included) == SetMax(included) + 1

\* the font SubsetKeepIndices returns
SubsetKeepIndicesFont(f, raws, indices) ==
    LET included == Expand(f, raws, indices, indices)
    IN SubsetFirstFont(KeepIndicesCopy(f, raws, included),
                       ClearedRaws(f, raws, included), MaxNeededNum(included))

\* the subtables heap after SubsetKeepIndices
SubsetKeepIndicesSubtables(f, raws, subts, indices) ==
    LET included == Expand(f, raws, indices, indices)
    IN SubsetFirstSubtables(KeepIndicesCopy(f, raws, included), subts,
                            MaxNeededNum(included))

(***************************************************************************)
(* The parsed fonts a run starts from.  Each is a font record with the     *)
(* heap objects it refers to.  Glyph description ids are 0-based glyph      *)
(* indices of the parsed font; heap sequences are 1-based.                 *)
(***************************************************************************)

\* The loca table as read from a font file whose glyf table holds the glyphs
\* one after the other from offset 0: short offsets are byte offsets halved.
ParsedLoca(indexToLocFormat, raws) ==
    IF indexToLocFormat = 0
    THEN [offsetsShort |->
            RunningSum(0, [i \in 1..Len(raws) |-> Len(raws[i]) \div 2], TRUE),
          offsetsLong |-> << >>]
    ELSE [offsetsShort |-> << >>,
          offsetsLong |-> RunningSum(0, [i \in 1..Len(raws) |-> Len(raws[i])], FALSE)]

\* The font record of a parsed font with the given glyphs and tables.
ParsedFont(indexToLocFormat, raws, hMetrics, leftSideBearings, post, keys, nNames) ==
    [passthrough |-> "parsed",
     indexToLocFormat |-> indexToLocFormat,
     numGlyphs |-> Len(raws),
     numberOfHMetrics |-> Len(hMetrics),
     hMetrics |-> hMetrics,
     leftSideBearings |-> leftSideBearings,
     descs |-> [i \in 1..Len(raws) |-> i - 1],
     loca |-> ParsedLoca(indexToLocFormat, raws),
     post |-> post,
     cmap |-> [present |-> TRUE, version |-> 0, numTables |-> Len(keys),
               subtableKeys |-> keys, subtables |-> Range(keys)],
     name |-> IF nNames = 0 THEN NoName
              ELSE [present |-> TRUE, nameRecords |-> [i \in 1..nNames |-> i - 1]]]

HM(advanceWidth, lsb) == [advanceWidth |-> advanceWidth, lsb |-> lsb]

\* Two format 4 subtables ((0,3) and (3,1)) mapping {0,65,66,67} to
\* {0,1,2,3}, long loca offsets, one composite glyph, a version 2.0 post table.
FontA ==
    LET raws == << <<1, 10, 11, 12>>, <<1, 20>>, <<-1, 4>>, <<2, 30, 31, 32>>, <<1, 40>> >>
        pairs == {<<0, 0>>, <<65, 1>>, <<66, 2>>, <<67, 3>>}
    IN [font |-> ParsedFont(1, raws,
                   <<HM(500, 0), HM(600, 10), HM(700, 20)>>, <<30, 40>>,
                   [present |-> TRUE, version |-> 131072, numGlyphs |-> 5,
                    glyphNameIndex |-> <<0, 36, 37, 258, 259>>, offsets |-> << >>,
                    glyphNames |-> <<".notdef", "A", "B", "c.alt", "c.part">>],
                   <<"4,0,3", "4,3,1">>, 2),
        glyphRaw |-> raws,
        subtables |-> [k \in {"4,0,3", "4,3,1"} |->
                         IF k = "4,0,3" THEN Subtable4(0, 3, pairs)
                         ELSE Subtable4(3, 1, pairs)],
        nameRecs |-> << [data |-> <<70, 65>>, offset |-> 0, length |-> 2],
                        [data |-> <<82>>, offset |-> 2, length |-> 1] >>]

\* A format 0 (1,0), a format 4 (3,1) and a format 12 (3,10) subtable, short
\* loca offsets, a chain of composite glyphs 1 -> 3 -> {4, 0}, a version 2.5
\* post table.  The glyph indices of 'A' and 'B' are not in charcode order;
\* one rune lies above 0xFFFF and is mapped by the (3,10) subtable only.
FontB ==
    LET raws == << <<1, 10>>, <<-1, 3>>, <<1, 21, 22, 23>>, <<-1, 4, 4, 0>>, <<1, 41>> >>
    IN [font |-> ParsedFont(0, raws,
                   <<HM(400, 0), HM(500, 10), HM(500, 20), HM(500, 30), HM(500, 40)>>,
                   << >>,
                   [present |-> TRUE, version |-> 151552, numGlyphs |-> 5,
                    glyphNameIndex |-> << >>, offsets |-> <<0, 35, 35, 0, 1>>,
                    glyphNames |-> <<".notdef", "B", "C", "uni10041", "A">>],
                   <<"0,1,0", "4,3,1", "12,3,10">>, 1),
        glyphRaw |-> raws,
        subtables |-> [k \in {"0,1,0", "4,3,1", "12,3,10"} |->
                         CASE k = "0,1,0" ->
                                Subtable0(1, 0, {<<1, 4>>, <<65, 3>>, <<66, 1>>, <<97, 2>>})
                           [] k = "4,3,1" ->
                                Subtable4(3, 1, {<<65, 4>>, <<66, 1>>, <<67, 2>>,
                                                 <<65535, 0>>})
                           [] OTHER ->
                                Subtable12(3, 10, {<<65, 4>>, <<66, 1>>, <<65601, 3>>})],
        nameRecs |-> << [data |-> <<66>>, offset |-> 0, length |-> 1] >>]

\* A format 6 (1,0) and a format 12 (3,10) subtable, long loca offsets,
\* composite glyphs whose references form cycles (2 <-> 3, 4 -> 4), a
\* version 3.0 post table (no names), no name table.  No (3,1) subtable;
\* 'A' and 'B' share glyph 3; rune 0 maps to glyph 1.
FontC ==
    LET raws == << <<1, 10>>, <<-1, 2>>, <<-1, 3>>, <<-1, 2>>, <<-1, 4>> >>
    IN [font |-> ParsedFont(1, raws,
                   <<HM(300, 0), HM(310, 1), HM(320, 2), HM(330, 3), HM(340, 4)>>,
                   << >>,
                   [present |-> TRUE, version |-> 196608, numGlyphs |-> 0,
                    glyphNameIndex |-> << >>, offsets |-> << >>, glyphNames |-> << >>],
                   <<"6,1,0", "12,3,10">>, 0),
        glyphRaw |-> raws,
        subtables |-> [k \in {"6,1,0", "12,3,10"} |->
                         IF k = "6,1,0" THEN Subtable6(1, 0, 65, <<3, 3, 1>>)
                         ELSE Subtable12(3, 10, {<<0, 1>>, <<66, 2>>, <<65535, 3>>,
                                                 <<65536, 4>>, <<65601, 2>>})],
        nameRecs |-> << >>]

ParsedFonts == {FontA, FontB, FontC}

\* the runes a caller asks for: NUL, 'A', 'B' and a rune above 0xFFFF (which
\* FontA does not map)
RuneUniverse == {0, 65, 66, 65601}

\* the runes 'A', 'B', 'C' of the documented example
ScenarioRunes == <<65, 66, 67>>

\* the glyph indices a caller asks for (5 is past the last glyph)
GidUniverse == 0..5

SeqsUpTo(S, n) == UNION {[1..k -> S] : k \in 0..n}

RuneInputs == SeqsUpTo(RuneUniverse, MaxRunes) \cup {ScenarioRunes}

IndexInputs == {S \in SUBSET GidUniverse : Cardinality(S) <= MaxKeep}

CountInputs == 0..6

\* the table names a caller asks to prune: none, each supported name, a name
\* PruneTables does not support, a name given twice, and all at once
TableInputs ==
    {<< >>, <<"cmap">>, <<"post">>, <<"name">>, <<"glyf">>, <<"name", "name">>,
     <<"cmap", "glyf">>, <<"post", "cmap", "name">>}

(***************************************************************************)
(* Font files and the validator.  A file is a sequence of bytes (0..255);  *)
(* byte offsets are 0-based as in the code.  A uint32 is a pair            *)
(* <<high 16 bits, low 16 bits>>, added and subtracted modulo 2^32.        *)
(***************************************************************************)

Add32(a, b) ==
    <<(a[1] + b[1] + ((a[2] + b[2]) \div U16)) % U16, (a[2] + b[2]) % U16>>

Sub32(a, b) ==
    <<(a[1] - b[1] - (IF a[2] < b[2] THEN 1 ELSE 0)) % U16, (a[2] - b[2]) % U16>>

\* the byte at offset off, 0 past the end (the padding of the last word)
ByteAt(data, off) == IF off < Len(data) THEN data[off + 1] ELSE 0

\* the big-endian uint32 at offset off
Uint32At(data, off) ==
    <<ByteAt(data, off) * 256 + ByteAt(data, off + 1),
      ByteAt(data, off + 2) * 256 + ByteAt(data, off + 3)>>

\* the four bytes of a uint32, big-endian
Uint32Bytes(v) == <<v[1] \div 256, v[1] % 256, v[2] \div 256, v[2] % 256>>

\* the big-endian uint16 at offset off
Uint16At(data, off) == ByteAt(data, off) * 256 + ByteAt(data, off + 1)

RECURSIVE SumWords(_, _, _)
\* the sum modulo 2^32 of the big-endian words first..last of data (word k
\* starts at byte offset 4k); the range is halved rather than walked, the
\* sum being the same in any order
SumWords(data, first, last) ==
    IF first > last THEN <<0, 0>>
    ELSE IF first = last THEN Uint32At(data, 4 * first)
    ELSE LET mid == (first + last) \div 2
         IN Add32(SumWords(data, first, mid), SumWords(data, mid + 1, last))

\* byteWriter.checksum (the byte writer is not part of the sources at hand):
\* the sum modulo 2^32 of the buffered bytes read as big-endian uint32 words,
\* the last word padded with zero bytes.
checksum(data) == SumWords(data, 0, ((Len(data) + 3) \div 4) - 1)

\* the constant the whole-file checksum is adjusted to, 0xB1B0AFBA
ChecksumMagic == <<45488, 44986>>

\* "data[hoff+8] = 0 ... data[hoff+11] = 0" / "b[8], b[9], b[10], b[11] = 0, 0, 0, 0"
ZeroAdjustment(data, hoff) ==
    SubSeq(data, 1, hoff + 8) \o <<0, 0, 0, 0>> \o SubSeq(data, hoff + 13, Len(data))

\* the bytes of data from offset off, length many
BytesFrom(data, off, length) == SubSeq(data, off + 1, off + length)

\* an error value: Go's errors carry a message and name no table
NoTable == "none"
Err(msg) == [msg |-> msg, table |-> NoTable]
Ok == Err("nil")

\* a first block that looks for the head record and checks no sum
ValidateWholeSkipped(f, data) ==
    IF {i \in 1..Len(f.trec.list) : f.trec.list[i].tableTag = "head"} = {}
    THEN Err("errRequiredField") ELSE Ok

\* the records of f.trec.list with tag "head"
HeadRecords(f) == {i \in 1..Len(f.trec.list) : f.trec.list[i].tableTag = "head"}

\* The first block of validate: the whole-file checksum.  "nil" stands for
\* falling through to the per-table loop.
ValidateWhole(f, data) ==
    IF HeadRecords(f) = {} THEN Err("errRequiredField")
    ELSE LET hoff == f.trec.list[CHOOSE i \in HeadRecords(f) : TRUE].offset
         IN IF hoff + 11 >= Len(data) THEN Err("panic: index out of range")
            ELSE IF f.head.checksumAdjustment
                       # Sub32(ChecksumMagic, checksum(ZeroAdjustment(data, hoff)))
                 THEN Err("file checksum mismatch")
                 ELSE Ok

\* a round that sums the head table with checksumAdjustment left in place
ValidateTableKeepingAdjustment(tr, data) ==
    IF tr.length > 0 /\ tr.offset + tr.length > Len(data) THEN Err("unexpected EOF")
    ELSE IF tr.tableTag = "head" /\ tr.length < 12 THEN Err("head too short")
    ELSE IF tr.checksum # checksum(BytesFrom(data, tr.offset, tr.length))
         THEN Err("checksum incorrect")
         ELSE Ok

\* One round of the loop "for _, tr := range f.trec.list": the table's bytes
\* are read again from the file and their checksum compared.  (The tests
\* "tr.offset < 0 || tr.length < 0" and "int(tr.length) != bw.bufferedLen()"
\* cannot succeed: the fields are unsigned and exactly tr.length bytes were
\* buffered.)
ValidateTable(tr, data) ==
    IF tr.length > 0 /\ tr.offset + tr.length > Len(data) THEN Err("unexpected EOF")
    ELSE LET b == BytesFrom(data, tr.offset, tr.length)
         IN IF tr.tableTag = "head" /\ Len(b) < 12 THEN Err("head too short")
            ELSE IF tr.checksum # checksum(IF tr.tableTag = "head"
                                           THEN ZeroAdjustment(b, 0) ELSE b)
                 THEN Err("checksum incorrect")
                 ELSE Ok

\* the loop over the table records: the first error ends it
ValidateTables(f, data) ==
    LET bad == {i \in 1..Len(f.trec.list) : ValidateTable(f.trec.list[i], data) # Ok}
    IN IF bad = {} THEN Ok
       ELSE ValidateTable(f.trec.list[CHOOSE i \in bad : \A j \in bad : i <= j], data)

\* font.validate
validate(f, data) ==
    IF ~f.trec.present \/ ~f.ot.present \/ ~f.head.present
    THEN Err("errRequiredField")
    ELSE IF ValidateWhole(f, data) # Ok THEN ValidateWhole(f, data)
         ELSE ValidateTables(f, data)

(***************************************************************************)
(* Parsing a file as far as the validator and the post table need it.  The *)
(* directory, head and maxp parsers are not part of the sources at hand    *)
(* and are modelled from the wire format; parsePost is.                    *)
(***************************************************************************)

\* the tag a directory record's four bytes spell
TagOf(b) ==
    CASE b = <<104, 101, 97, 100>> -> "head"
      [] b = <<109, 97, 120, 112>> -> "maxp"
      [] b = <<112, 111, 115, 116>> -> "post"
      [] OTHER -> "other"

\* a uint32 offset or length as a number; every value of 2^16 or more lies
\* past the end of the files here and is read as 2^16
Offset32(v) == IF v[1] > 0 THEN U16 ELSE v[2]

\* the table directory: numTables records of 16 bytes after the 12-byte
\* offset table
ParseRecords(data) ==
    [i \in 1..Uint16At(data, 4) |->
        LET base == 12 + 16 * (i - 1)
        IN [tableTag |-> TagOf(BytesFrom(data, base, 4)),
            checksum |-> Uint32At(data, base + 4),
            offset |-> Offset32(Uint32At(data, base + 8)),
            length |-> Offset32(Uint32At(data, base + 12))]]

\* the records with a tag
RecordsOf(list, tag) == {i \in 1..Len(list) : list[i].tableTag = tag}

\* a glyph name: entry i of macGlyphNames (the list of the 258 standard
\* Macintosh names is not part of the sources at hand), a name read from the
\* table, or the empty name a GlyphName starts as
MacGlyphName(i) == [kind |-> "mac", index |-> i, chars |-> << >>]
OwnGlyphName(chars) == [kind |-> "own", index |-> 0, chars |-> chars]
EmptyGlyphName == [kind |-> "empty", index |-> 0, chars |-> << >>]

\* number of entries of macGlyphNames
MacGlyphCount == 258

\* the largest glyph name index that refers to a name of the table
MaxOwnIndex == 32767

\* a byte read as an int8
Int8(b) == IF b >= 128 THEN b - 256 ELSE b

\* what parsePost returns: a table (absent for nil) and an error (Ok for nil)
NoPostTable ==
    [present |-> FALSE, version |-> <<0, 0>>, numGlyphs |-> 0,
     glyphNameIndex |-> << >>, offsets |-> << >>, glyphNames |-> << >>]
PostFails(msg) == [err |-> Err(msg), table |-> NoPostTable]
PostParsed(t) == [err |-> Ok, table |-> t]

RECURSIVE ReadNames(_, _, _, _, _, _)
\* "for i := 0; i < newGlyphs; i++": the names read from offset pos on, left
\* being the rounds still to run; start and length are those of the table
ReadNames(data, start, length, pos, left, names) ==
    IF left = 0 THEN [err |-> Ok, names |-> names]
    ELSE IF pos - start >= length
         THEN [err |-> Err("reading outside table"), names |-> names]
    ELSE IF pos + 1 > Len(data) THEN [err |-> Err("unexpected EOF"), names |-> names]
    ELSE LET numChars == Int8(data[pos + 1])
         IN IF numChars = 0 THEN [err |-> Ok, names |-> names]
            ELSE IF numChars < 0
                 THEN [err |-> Err("panic: makeslice: len out of range"), names |-> names]
            ELSE IF pos + 1 + numChars > Len(data)
                 THEN [err |-> Err("unexpected EOF"), names |-> names]
            ELSE ReadNames(data, start, length, pos + 1 + numChars, left - 1,
                           Append(names, BytesFrom(data, pos + 1, numChars)))

\* "for i := 0; i < int(t.numGlyphs); i++" of version 2.0: the name of every
\* glyph, or errRangeCheck for an index past the names read
GlyphNames20(glyphNameIndex, names) ==
    IF \E i \in 1..Len(glyphNameIndex) :
          /\ glyphNameIndex[i] >= MacGlyphCount
          /\ glyphNameIndex[i] <= MaxOwnIndex
          /\ glyphNameIndex[i] - MacGlyphCount >= Len(names)
    THEN [err |-> Err("errRangeCheck"), glyphNames |-> << >>]
    ELSE [err |-> Ok,
          glyphNames |->
             [i \in 1..Len(glyphNameIndex) |->
                 LET ni == glyphNameIndex[i]
                 IN IF ni < MacGlyphCount THEN MacGlyphName(ni)
                    ELSE IF ni <= MaxOwnIndex
                         THEN OwnGlyphName(names[ni - MacGlyphCount + 1])
                    ELSE EmptyGlyphName]]

\* "for i := 0; i < int(t.numGlyphs); i++" of version 2.5: glyph i (0-based)
\* gets macGlyphNames[i + 1 + offsets[i]], or stays unnamed ("continue") when
\* that index is outside the list
GlyphNames25(offsets) ==
    [i \in 1..Len(offsets) |->
        LET nameIndex == (i - 1) + 1 + offsets[i]
        IN IF nameIndex < 0 \/ nameIndex > MacGlyphCount - 1 THEN EmptyGlyphName
           ELSE MacGlyphName(nameIndex)]

\* case 0x00010000: t.numGlyphs is still the zero value when it is compared
\* with 258 (only versions 2.0 and 2.5 read it)
ParsePost10(maxp, t) ==
    IF t.numGlyphs # MacGlyphCount THEN PostFails("errRangeCheck")
    ELSE PostParsed([t EXCEPT
            !.glyphNames = [i \in 1..t.numGlyphs |->
                               IF i <= MacGlyphCount THEN MacGlyphName(i - 1)
                               ELSE EmptyGlyphName]])

\* a comparison of glyph counts that never finds a mismatch
GlyphCountAccepted(maxp, numGlyphs) == FALSE

\* "if t.numGlyphs != f.maxp.numGlyphs" of versions 2.0 and 2.5
GlyphCountMismatch(maxp, numGlyphs) == numGlyphs # maxp.numGlyphs

\* case 0x00020000 and case 0x00025000
ParsePost2x(maxp, t, data, start, length) ==
    IF start + 34 > Len(data) THEN PostFails("unexpected EOF")
    ELSE LET numGlyphs == Uint16At(data, start + 32)
         IN IF GlyphCountMismatch(maxp, numGlyphs) THEN PostFails("errRangeCheck")
            ELSE IF t.version = <<2, 0>>
            THEN IF start + 34 + 2 * numGlyphs > Len(data)
                 THEN PostFails("unexpected EOF")
                 ELSE LET glyphNameIndex ==
                              [i \in 1..numGlyphs |->
                                  Uint16At(data, start + 34 + 2 * (i - 1))]
                          newGlyphs ==
                              Cardinality({i \in 1..numGlyphs :
                                             /\ glyphNameIndex[i] >= MacGlyphCount
                                             /\ glyphNameIndex[i] <= MaxOwnIndex})
                          read == ReadNames(data, start, length,
                                            start + 34 + 2 * numGlyphs, newGlyphs, << >>)
                          named == GlyphNames20(glyphNameIndex, read.names)
                      IN IF read.err # Ok THEN [err |-> read.err, table |-> NoPostTable]
                         ELSE IF Len(read.names) # newGlyphs
                              THEN PostFails("mismatching number of names loaded")
                         ELSE IF named.err # Ok
                              THEN [err |-> named.err, table |-> NoPostTable]
                         ELSE PostParsed([t EXCEPT !.numGlyphs = numGlyphs,
                                                   !.glyphNameIndex = glyphNameIndex,
                                                   !.glyphNames = named.glyphNames])
            ELSE IF start + 34 + numGlyphs > Len(data)
                 THEN PostFails("unexpected EOF")
                 ELSE LET offsets ==
                              [i \in 1..numGlyphs |-> Int8(data[start + 34 + i])]
                      IN PostParsed([t EXCEPT !.numGlyphs = numGlyphs,
                                              !.offsets = offsets,
                                              !.glyphNames = GlyphNames25(offsets)])

\* parsePost: the table and the error it returns.  maxp is the parsed maxp
\* table ([present, numGlyphs]), list the table records, data the file.
parsePost(maxp, list, data) ==
    IF ~maxp.present THEN PostFails("errRequiredField")
    ELSE IF RecordsOf(list, "post") = {} THEN PostParsed(NoPostTable)
    ELSE LET tr == list[CHOOSE i \in RecordsOf(list, "post") : TRUE]
             start == tr.offset
             t == [NoPostTable EXCEPT !.present = TRUE,
                                      !.version = Uint32At(data, start)]
         IN IF start + 32 > Len(data) THEN PostFails("unexpected EOF")
            ELSE IF t.version = <<1, 0>> THEN ParsePost10(maxp, t)
            ELSE IF t.version = <<2, 0>> \/ t.version = <<2, 20480>>
                 THEN ParsePost2x(maxp, t, data, start, tr.length)
            ELSE PostParsed(t)

\* parseFont: the model of a file, and the error of the parse
parseFont(data) ==
    LET list == ParseRecords(data)
        heads == RecordsOf(list, "head")
        maxps == RecordsOf(list, "maxp")
        maxp == IF maxps = {} THEN [present |-> FALSE, numGlyphs |-> 0]
                ELSE [present |-> TRUE,
                      numGlyphs |-> Uint16At(data, list[CHOOSE i \in maxps : TRUE].offset + 4)]
    IN [err |-> parsePost(maxp, list, data).err,
        font |-> [trec |-> [present |-> TRUE, list |-> list],
                  ot |-> [present |-> TRUE],
                  head |-> IF heads = {}
                           THEN [present |-> FALSE, checksumAdjustment |-> <<0, 0>>]
                           ELSE [present |-> TRUE,
                                 checksumAdjustment |->
                                    Uint32At(data, list[CHOOSE i \in heads : TRUE].offset + 8)]]]

\* the model with some of trec, ot and head absent (nil)
Without(f, missing) ==
    [f EXCEPT !.trec.present = "trec" \notin missing,
              !.ot.present = "ot" \notin missing,
              !.head.present = "head" \notin missing]

\* ValidateBytes: parse, and validate what was parsed
ValidateBytes(b) ==
    IF parseFont(b).err # Ok THEN parseFont(b).err
    ELSE validate(parseFont(b).font, b)

(***************************************************************************)
(* The font files validation starts from: an offset table, a directory of  *)
(* three records and the tables head (54 bytes), maxp (6 bytes) and post   *)
(* (32 bytes, version 3.0), each padded to a multiple of four bytes.       *)
(***************************************************************************)

Pad4(b) == b \o [i \in 1..((4 - (Len(b) % 4)) % 4) |-> 0]

HeadBody(checksumAdjustment) ==
    <<0, 1, 0, 0,  0, 1, 0, 0>> \o Uint32Bytes(checksumAdjustment)
       \o <<95, 15, 60, 245,  0, 0,  3, 232>>
       \o <<0, 0, 0, 0, 0, 0, 0, 0,  0, 0, 0, 0, 0, 0, 0, 0>>
       \o <<0, 0, 0, 0, 3, 232, 3, 232,  0, 0,  0, 8,  0, 2,  0, 1,  0, 0>>

MaxpBody == <<0, 0, 80, 0,  0, 2>>

PostBody ==
    <<0, 3, 0, 0,  0, 0, 0, 0,  255, 133,  0, 20,  0, 0, 0, 0>>
       \o <<0, 0, 0, 0, 0, 0, 0, 0, 0, 0, 0, 0, 0, 0, 0, 0>>

OffsetTableBytes == <<0, 1, 0, 0,  0, 3,  0, 32,  0, 1,  0, 16>>

RecordBytes(tag, sum, offset, length) ==
    tag \o Uint32Bytes(sum) \o <<0, 0, offset \div 256, offset % 256>>
        \o <<0, 0, length \div 256, length % 256>>

\* A file as the writer lays it out, with the checksum stored for post off
\* by postDelta and checksumAdjustment set for the whole file.
FileWith(checksumAdjustment, postDelta) ==
    OffsetTableBytes
       \o RecordBytes(<<104, 101, 97, 100>>, checksum(HeadBody(<<0, 0>>)), 60, 54)
       \o RecordBytes(<<109, 97, 120, 112>>, checksum(MaxpBody), 116, 6)
       \o RecordBytes(<<112, 111, 115, 116>>, Add32(checksum(PostBody), postDelta), 124, 32)
       \o Pad4(HeadBody(checksumAdjustment)) \o Pad4(MaxpBody) \o Pad4(PostBody)

WrittenFile(postDelta) ==
    FileWith(Sub32(ChecksumMagic, checksum(FileWith(<<0, 0>>, postDelta))), postDelta)

\* a well-formed file, and one whose post checksum is wrong in the directory
FontFiles == {WrittenFile(<<0, 0>>), WrittenFile(<<0, 1>>)}

\* the byte offsets inside the declared range of a table
BodyOffsets(data) ==
    UNION {(ParseRecords(data)[i].offset)
              ..(ParseRecords(data)[i].offset + ParseRecords(data)[i].length - 1) :
           i \in 1..Len(ParseRecords(data))}

\* the tag of the table whose declared range holds a byte offset
TableAt(data, off) ==
    LET list == ParseRecords(data)
        hits == {i \in 1..Len(list) :
                   off \in list[i].offset..(list[i].offset + list[i].length - 1)}
    IN IF hits = {} THEN NoTable ELSE list[CHOOSE i \in hits : TRUE].tableTag

\* the byte offsets a change is made at: the table bodies, the padding
\* between them and the checksum fields of the directory
ChangeOffsets(data) ==
    (60..(Len(data) - 1)) \cup UNION {(12 + 16 * i + 4)..(12 + 16 * i + 7) : i \in 0..2}

\* the values a byte is changed to
ChangeValues(old) == {0, 1, 2, 255, (old + 128) % 256} \ {old}

(***************************************************************************)
(* The post tables parsing starts from.                                    *)
(***************************************************************************)

\* the largest glyph count a version 2.0 / 2.5 table declares here
MaxPostGlyphs == 2

\* the largest number of Pascal strings behind the glyph name indices
MaxPostNames == 2

\* the 32-byte header of a post table
PostHeader(version) ==
    Uint32Bytes(version) \o <<0, 0, 0, 0,  255, 133,  0, 20,  0, 0, 0, 0>>
       \o <<0, 0, 0, 0, 0, 0, 0, 0, 0, 0, 0, 0, 0, 0, 0, 0>>

Uint16Bytes(v) == <<v \div 256, v % 256>>

RECURSIVE Flat(_)
\* the byte strings of a list, one after the other
Flat(parts) == IF parts = << >> THEN << >> ELSE Head(parts) \o Flat(Tail(parts))

\* glyph name indices: standard names, names of the table, and the reserved
\* range above 32767
PostIndexValues == {0, 257, 258, 259, 32767, 32768}

\* int8 offsets as bytes: 0, 1, 127, -2, -1
PostOffsetValues == {0, 1, 127, 254, 255}

\* Pascal strings: "a", "bc", and the empty string that ends the list
PostStrings == {<<0>>, <<1, 97>>, <<2, 98, 99>>}

\* the glyph counts a maxp table holds (a nil maxp apart)
MaxpInputs ==
    {[present |-> FALSE, numGlyphs |-> 0]}
       \cup {[present |-> TRUE, numGlyphs |-> n] : n \in (0..MaxPostGlyphs) \cup {258}}

\* a table record for a post table at offset 0
PostRecord(length) ==
    [tableTag |-> "post", checksum |-> <<0, 0>>, offset |-> 0, length |-> length]

\* a version 2.0 table: a glyph count, that many indices and a list of
\* strings; the record covers all of it, or stops before the strings
PostInput20(idx, strs, whole) ==
    LET fixed == PostHeader(<<2, 0>>) \o Uint16Bytes(Len(idx))
                    \o Flat([i \in 1..Len(idx) |-> Uint16Bytes(idx[i])])
        data == fixed \o Flat(strs)
    IN [list |-> <<PostRecord(IF whole THEN Len(data) ELSE Len(fixed))>>,
        data |-> data]

\* a version 2.5 table: a glyph count and that many offsets
PostInput25(offs) ==
    LET data == PostHeader(<<2, 20480>>) \o Uint16Bytes(Len(offs)) \o offs
    IN [list |-> <<PostRecord(Len(data))>>, data |-> data]

\* header-only tables of version 1.0, 3.0 and 4.0, a header cut short, a
\* version 2.0 table without its glyph count, and a font without post table
PostInputsOther ==
    {[list |-> <<PostRecord(32)>>, data |-> PostHeader(v)] :
        v \in {<<1, 0>>, <<3, 0>>, <<4, 0>>}}
       \cup {[list |-> <<PostRecord(16)>>, data |-> Slice(PostHeader(<<3, 0>>), 16)],
             [list |-> <<PostRecord(32)>>, data |-> PostHeader(<<2, 0>>)],
             [list |-> << >>, data |-> << >>]}

(***************************************************************************)
(* State.                                                                  *)
(***************************************************************************)
VARIABLES
    font,       \* the font the caller holds (the receiver of the next call)
    glyphRaw,   \* heap: glyph description id -> raw bytes
    subtables,  \* heap: subtable name -> cmapSubtable
    nameRecs,   \* heap: name record id -> nameRecord
    res,        \* the font the last call returned (NilFont when it returned none)
    call,       \* the last call: its name, arguments and outcome
    pre,        \* the receiver and the heaps as they were when the last call began
    calls,      \* number of calls made so far
    origin,     \* the font that font was returned from, and that font then
    file,       \* the bytes handed to the validator
    changed,    \* the one byte of file that was changed: its offset and old value
    verdict,    \* the last validation: how it was called and the error it returned
    parsing     \* the last parse of a post table: what was parsed and the answer

fontVars == <<font, glyphRaw, subtables, nameRecs, res, call, pre, calls, origin>>

fileVars == <<file, changed, verdict, parsing>>

vars == <<font, glyphRaw, subtables, nameRecs, res, call, pre, calls, origin,
          file, changed, verdict, parsing>>

NoChange == [offset |-> -1, old |-> 0]

NoVerdict == [via |-> "none", missing |-> {}, err |-> Ok]

\* no post table parsed yet
NoParsing ==
    [done |-> FALSE, maxp |-> [present |-> FALSE, numGlyphs |-> 0], list |-> << >>,
     data |-> << >>, out |-> PostParsed(NoPostTable)]

NoCall == [op |-> "none", runes |-> << >>, indices |-> {}, n |-> 0, outcome |-> "none",
           looked |-> [indices |-> << >>, runes |-> << >>], tables |-> << >>,
           scans |-> << >>]

Snapshot == [font |-> font, glyphRaw |-> glyphRaw, subtables |-> subtables,
             nameRecs |-> nameRecs]

\* the font the caller holds came from the parser, not from a call
NoOrigin ==
    [live |-> FALSE, same |-> FALSE, font |-> NilFont,
     then |-> [font |-> NilFont, glyphRaw |-> << >>, subtables |-> << >>,
               nameRecs |-> << >>]]

Init ==
    \E p \in ParsedFonts :
        /\ font = p.font
        /\ glyphRaw = p.glyphRaw
        /\ subtables = p.subtables
        /\ nameRecs = p.nameRecs
        /\ res = NilFont
        /\ call = NoCall
        /\ pre = [font |-> p.font, glyphRaw |-> p.glyphRaw,
                  subtables |-> p.subtables, nameRecs |-> p.nameRecs]
        /\ calls = 0
        /\ origin = NoOrigin
        /\ file = << >>
        /\ changed = NoChange
        /\ verdict = NoVerdict
        /\ parsing = NoParsing


(***************************************************************************)
(* The calls.                                                              *)
(***************************************************************************)

\* Subset(runes) returns a font, or panics half way and returns none; either
\* way the cmap subtables and the name records of the receiver have been
\* written through the pointers it holds.
Subset(runes) ==
    /\ calls < MaxCalls
    /\ call.op = "none"
    /\ pre' = Snapshot
    /\ subtables' = SubsetSubtables(font, subtables, runes)
    /\ nameRecs' = SubsetNameRecs(font, nameRecs)
    /\ IF SubsetPanics(font, subtables, runes)
       THEN /\ res' = NilFont
            /\ call' = [NoCall EXCEPT !.op = "Subset", !.runes = runes,
                                      !.outcome = "panic"]
       ELSE /\ res' = SubsetFont(font, glyphRaw, subtables, runes)
            /\ call' = [NoCall EXCEPT !.op = "Subset", !.runes = runes,
                                      !.outcome = "ok"]
    /\ calls' = calls + 1
    /\ UNCHANGED <<font, glyphRaw>>
    /\ UNCHANGED <<origin, file, changed, verdict, parsing>>

\* SubsetFirst(numGlyphs) returns a font: the receiver itself when it has no
\* more glyphs than asked for, else a new font; the subtable payloads the
\* receiver shares with it have been written.
SubsetFirst(numGlyphs) ==
    /\ calls < MaxCalls
    /\ call.op = "none"
    /\ pre' = Snapshot
    /\ res' = SubsetFirstFont(font, glyphRaw, numGlyphs)
    /\ subtables' = SubsetFirstSubtables(font, subtables, numGlyphs)
    /\ call' = [NoCall EXCEPT !.op = "SubsetFirst", !.n = numGlyphs, !.outcome = "ok"]
    /\ calls' = calls + 1
    /\ UNCHANGED <<font, glyphRaw, nameRecs>>
    /\ UNCHANGED <<origin, file, changed, verdict, parsing>>

\* SubsetKeepIndices(indices) returns a font; the glyph descriptions and the
\* subtable payloads the receiver shares with it have been written.
SubsetKeepIndices(indices) ==
    /\ calls < MaxCalls
    /\ call.op = "none"
    /\ ~ExpandFails(font, glyphRaw, indices)
    /\ pre' = Snapshot
    /\ res' = SubsetKeepIndicesFont(font, glyphRaw, indices)
    /\ glyphRaw' = ClearedRaws(font, glyphRaw, Expand(font, glyphRaw, indices, indices))
    /\ subtables' = SubsetKeepIndicesSubtables(font, glyphRaw, subtables, indices)
    /\ call' = [NoCall EXCEPT !.op = "SubsetKeepIndices", !.indices = indices,
                              !.scans = ScanLists(font, glyphRaw, indices),
                              !.outcome = "ok"]
    /\ calls' = calls + 1
    /\ UNCHANGED <<font, nameRecs>>
    /\ UNCHANGED <<origin, file, changed, verdict, parsing>>

\* SubsetKeepIndices(indices) returns an error and has written nothing.
SubsetKeepIndicesError(indices) ==
    /\ calls < MaxCalls
    /\ call.op = "none"
    /\ ExpandFails(font, glyphRaw, indices)
    /\ pre' = Snapshot
    /\ res' = NilFont
    /\ call' = [NoCall EXCEPT !.op = "SubsetKeepIndices", !.indices = indices,
                              !.scans = ScanLists(font, glyphRaw, indices),
                              !.outcome = "error"]
    /\ calls' = calls + 1
    /\ UNCHANGED <<font, glyphRaw, subtables, nameRecs>>
    /\ UNCHANGED <<origin, file, changed, verdict, parsing>>

\* SubsetKeepRunes(runes) is SubsetKeepIndices of the indices LookupRunes
\* finds (which lie within the receiver's glyphs or make it fail alike).
SubsetKeepRunes(runes) ==
    LET indices == Range(LookupRunes(font, subtables, runes).indices)
    IN /\ calls < MaxCalls
       /\ call.op = "none"
       /\ pre' = Snapshot
       /\ calls' = calls + 1
       /\ UNCHANGED <<font, nameRecs>>
       /\ UNCHANGED <<origin, file, changed, verdict, parsing>>
       /\ IF ExpandFails(font, glyphRaw, indices)
          THEN /\ res' = NilFont
               /\ call' = [NoCall EXCEPT !.op = "SubsetKeepRunes", !.runes = runes,
                                         !.indices = indices,
                                         !.scans = ScanLists(font, glyphRaw, indices),
                                         !.outcome = "error"]
               /\ UNCHANGED <<glyphRaw, subtables>>
          ELSE /\ res' = SubsetKeepIndicesFont(font, glyphRaw, indices)
               /\ glyphRaw' = ClearedRaws(font, glyphRaw,
                                          Expand(font, glyphRaw, indices, indices))
               /\ subtables' = SubsetKeepIndicesSubtables(font, glyphRaw, subtables, indices)
               /\ call' = [NoCall EXCEPT !.op = "SubsetKeepRunes", !.runes = runes,
                                         !.indices = indices,
                                         !.scans = ScanLists(font, glyphRaw, indices),
                                         !.outcome = "ok"]

\* LookupRunes(runes) returns its two lists; nothing is written.
LookupRunesCall(runes) ==
    /\ calls < MaxCalls
    /\ call.op = "none"
    /\ pre' = Snapshot
    /\ call' = [NoCall EXCEPT !.op = "LookupRunes", !.runes = runes,
                              !.outcome = "looked",
                              !.looked = LookupRunes(font, subtables, runes)]
    /\ calls' = calls + 1
    /\ UNCHANGED <<font, glyphRaw, subtables, nameRecs, res>>
    /\ UNCHANGED <<origin, file, changed, verdict, parsing>>

\* The caller goes on with the font the last call returned.
Adopt ==
    /\ call.outcome = "ok"
    /\ font' = res
    /\ res' = NilFont
    /\ call' = NoCall
    /\ pre' = [font |-> res, glyphRaw |-> glyphRaw, subtables |-> subtables,
               nameRecs |-> nameRecs]
    /\ origin' = [live |-> TRUE,
                  same |-> (call.op = "SubsetFirst" /\ SubsetFirstIsNoop(font, call.n)),
                  font |-> font,
                  then |-> Snapshot]
    /\ UNCHANGED <<glyphRaw, subtables, nameRecs, calls>>
    /\ UNCHANGED fileVars

\* the font that font was returned from, after font has been set to g: the
\* same object when SubsetFirst returned its receiver, else untouched
OriginAfter(g) == IF origin.live /\ origin.same THEN [origin EXCEPT !.font = g] ELSE origin

\* PruneTables(tables...) sets the named tables of the receiver to nil and
\* returns nil.
PruneTables(tables) ==
    /\ call.op = "none"
    /\ pre' = Snapshot
    /\ font' = Pruned(font, tables)
    /\ origin' = OriginAfter(Pruned(font, tables))
    /\ call' = [NoCall EXCEPT !.op = "PruneTables", !.tables = tables,
                              !.outcome = "nil"]
    /\ UNCHANGED <<glyphRaw, subtables, nameRecs, res, calls>>
    /\ UNCHANGED fileVars

\* Optimize() reduces the hmtx table of the receiver and returns nil.
Optimize ==
    /\ call.op = "none"
    /\ pre' = Snapshot
    /\ font' = optimizeHmtx(font)
    /\ origin' = OriginAfter(optimizeHmtx(font))
    /\ call' = [NoCall EXCEPT !.op = "Optimize", !.outcome = "nil"]
    /\ UNCHANGED <<glyphRaw, subtables, nameRecs, res, calls>>
    /\ UNCHANGED fileVars

Next ==
    \/ \E runes \in RuneInputs : Subset(runes)
    \/ \E numGlyphs \in CountInputs : SubsetFirst(numGlyphs)
    \/ \E indices \in IndexInputs : SubsetKeepIndices(indices)
    \/ \E indices \in IndexInputs : SubsetKeepIndicesError(indices)
    \/ \E runes \in RuneInputs : SubsetKeepRunes(runes)
    \/ \E runes \in RuneInputs : LookupRunesCall(runes)
    \/ \E tables \in TableInputs : PruneTables(tables)
    \/ Optimize
    \/ Adopt

Spec == Init /\ [][Next]_vars

(***************************************************************************)
(* Runs on a font that an earlier SubsetFirst(n) returned: the state is    *)
(* the one Adopt leaves after that call, the calls counted from there.     *)
(* With n at least the glyph count this is the parsed font itself.         *)
(***************************************************************************)
InitTruncated ==
    \E p \in ParsedFonts :
        \E numGlyphs \in CountInputs :
            LET g == SubsetFirstFont(p.font, p.glyphRaw, numGlyphs)
                subts == SubsetFirstSubtables(p.font, p.subtables, numGlyphs)
                after == [font |-> p.font, glyphRaw |-> p.glyphRaw,
                          subtables |-> subts, nameRecs |-> p.nameRecs]
            IN /\ font = g
               /\ glyphRaw = p.glyphRaw
               /\ subtables = subts
               /\ nameRecs = p.nameRecs
               /\ res = NilFont
               /\ call = NoCall
               /\ pre = [after EXCEPT !.font = g]
               /\ calls = 0
               /\ origin = [live |-> TRUE,
                            same |-> SubsetFirstIsNoop(p.font, numGlyphs),
                            font |-> p.font,
                            then |-> after]
               /\ file = << >>
               /\ changed = NoChange
               /\ verdict = NoVerdict
               /\ parsing = NoParsing

SpecTruncated == InitTruncated /\ [][Next]_vars

(***************************************************************************)
(* Validation runs: a font file, at most one byte of it changed, is        *)
(* validated.                                                              *)
(***************************************************************************)

InitValidate ==
    /\ file \in FontFiles
    /\ changed = NoChange
    /\ verdict = NoVerdict
    /\ parsing = NoParsing
    /\ font = NilFont
    /\ glyphRaw = << >>
    /\ subtables = << >>
    /\ nameRecs = << >>
    /\ res = NilFont
    /\ call = NoCall
    /\ pre = [font |-> NilFont, glyphRaw |-> << >>, subtables |-> << >>,
              nameRecs |-> << >>]
    /\ calls = 0
    /\ origin = NoOrigin

\* one byte of the file gets another value
ChangeByte(offset, value) ==
    /\ changed = NoChange
    /\ verdict = NoVerdict
    /\ file' = [file EXCEPT ![offset + 1] = value]
    /\ changed' = [offset |-> offset, old |-> file[offset + 1]]
    /\ UNCHANGED <<verdict, parsing>>
    /\ UNCHANGED fontVars

\* ValidateBytes(file)
ValidateBytesCall ==
    /\ verdict = NoVerdict
    /\ verdict' = [via |-> IF parseFont(file).err # Ok THEN "parseFont" ELSE "validate",
                   missing |-> {}, err |-> ValidateBytes(file)]
    /\ UNCHANGED <<file, changed, parsing>>
    /\ UNCHANGED fontVars

\* validate called on the model of a file as written, with some of the table
\* directory, the offset table and head nil
ValidateWithout(missing) ==
    /\ verdict = NoVerdict
    /\ changed = NoChange
    /\ missing # {}
    /\ parseFont(file).err = Ok
    /\ verdict' = [via |-> "validate", missing |-> missing,
                   err |-> validate(Without(parseFont(file).font, missing), file)]
    /\ UNCHANGED <<file, changed, parsing>>
    /\ UNCHANGED fontVars

NextValidate ==
    \/ \E offset \in ChangeOffsets(file) :
          \E value \in ChangeValues(file[offset + 1]) : ChangeByte(offset, value)
    \/ ValidateBytesCall
    \/ \E missing \in SUBSET {"trec", "ot", "head"} : ValidateWithout(missing)

SpecValidate == InitValidate /\ [][NextValidate]_vars

(***************************************************************************)
(* Parsing a post table.  The reader holds the post table from offset 0    *)
(* on; the table record gives its length, which need not be all of it.     *)
(***************************************************************************)
InitPost ==
    /\ parsing = NoParsing
    /\ file = << >>
    /\ changed = NoChange
    /\ verdict = NoVerdict
    /\ font = NilFont
    /\ glyphRaw = << >>
    /\ subtables = << >>
    /\ nameRecs = << >>
    /\ res = NilFont
    /\ call = NoCall
    /\ pre = [font |-> NilFont, glyphRaw |-> << >>, subtables |-> << >>,
              nameRecs |-> << >>]
    /\ calls = 0
    /\ origin = NoOrigin

\* parsePost on a font with the given maxp table and table records
ParsePostCall(maxp, list, data) ==
    /\ ~parsing.done
    /\ parsing' = [done |-> TRUE, maxp |-> maxp, list |-> list, data |-> data,
                   out |-> parsePost(maxp, list, data)]
    /\ UNCHANGED <<file, changed, verdict>>
    /\ UNCHANGED fontVars

\* a version 2.0 table is parsed
ParsePost20(maxp, idx, strs, whole) ==
    LET t == PostInput20(idx, strs, whole) IN ParsePostCall(maxp, t.list, t.data)

\* a version 2.5 table is parsed
ParsePost25(maxp, offs) ==
    LET t == PostInput25(offs) IN ParsePostCall(maxp, t.list, t.data)

\* a table of another version, a damaged table or no table is parsed
ParsePostOther(maxp, t) == ParsePostCall(maxp, t.list, t.data)

\* one table is parsed in a run
NextPost ==
    /\ ~parsing.done
    /\ \E maxp \in MaxpInputs :
          \/ \E idx \in SeqsUpTo(PostIndexValues, MaxPostGlyphs) :
                \E strs \in SeqsUpTo(PostStrings, MaxPostNames) :
                   \E whole \in BOOLEAN : ParsePost20(maxp, idx, strs, whole)
          \/ \E offs \in SeqsUpTo(PostOffsetValues, MaxPostGlyphs) :
                ParsePost25(maxp, offs)
          \/ \E t \in PostInputsOther : ParsePostOther(maxp, t)

SpecPost == InitPost /\ [][NextPost]_vars

(***************************************************************************)
(* Vocabulary of the properties.                                           *)
(***************************************************************************)

Returned == call.outcome = "ok"

\* the raw bytes of glyph index gid of the receiver when the call began
PreRaw(gid) == pre.glyphRaw[pre.font.descs[gid + 1] + 1]

\* the raw bytes of glyph index gid of the returned font
ResRaw(gid) == glyphRaw[res.descs[gid + 1] + 1]

\* glyph gid of the returned font is the receiver's glyph old, bytes included
SameGlyph(gid, old) ==
    /\ res.descs[gid + 1] = pre.font.descs[old + 1]
    /\ ResRaw(gid) = PreRaw(old)

\* the glyph indices of the receiver when the call began
PreGids == 0..(Len(pre.font.descs) - 1)

\* the components of a glyph of the receiver when the call began
PreComponents(gid) ==
    IF gid \in PreGids THEN GetComponents(pre.font, pre.glyphRaw, gid) ELSE {}

\* E is closed under "depends on"
ComponentClosed(E) == \A g \in E : PreComponents(g) \subseteq E

\* the smallest superset of S closed under "depends on"
Closure(S) ==
    LET universe == S \cup PreGids \cup UNION {PreComponents(g) : g \in PreGids}
    IN CHOOSE E \in SUBSET universe :
          /\ S \subseteq E
          /\ ComponentClosed(E)
          /\ \A D \in SUBSET universe :
                (S \subseteq D /\ ComponentClosed(D)) => E \subseteq D

\* maxp.numGlyphs, the glyph descriptions and the loca offsets in use agree
CountsAgree(f) ==
    /\ f.numGlyphs = Len(f.descs)
    /\ Len(ActiveOffsets(f)) = f.numGlyphs + 1

\* the index list LookupRunes returned to the Subset call
CallIndices == LookupRunes(pre.font, pre.subtables, call.runes).indices

(***************************************************************************)
(* C1.  Closure: when SubsetKeepIndices(S) succeeds, every glyph that a     *)
(* glyph of S depends on, directly or through other composites, is still    *)
(* at its index in the result with the raw bytes it had; and every glyph    *)
(* of the result left un-cleared has all its components there likewise.    *)
(***************************************************************************)
C1_Closure ==
    (call.op = "SubsetKeepIndices" /\ Returned) =>
        /\ \A g \in Closure(call.indices) :
              g < res.numGlyphs /\ SameGlyph(g, g)
        /\ \A g \in 0..(Len(res.descs) - 1) :
              ResRaw(g) # NilRaw =>
                 \A c \in PreComponents(g) : c < res.numGlyphs /\ SameGlyph(c, c)

\* a call whose index set grows by components of components, while some
\* other glyph is cleared
C1_Witness ==
    /\ call.op = "SubsetKeepIndices" /\ Returned
    /\ \E g \in call.indices : \E c \in PreComponents(g) :
          /\ c \notin call.indices
          /\ PreComponents(c) \ (call.indices \cup PreComponents(g)) # {}
    /\ \E g \in 0..(Len(res.descs) - 1) : PreRaw(g) # NilRaw /\ ResRaw(g) = NilRaw

(***************************************************************************)
(* C2.  Count consistency: whenever a subsetting call on a font with        *)
(* agreeing counts returns a font, that font has maxp.numGlyphs equal to    *)
(* the number of glyph descriptions and one loca offset more than that.     *)
(***************************************************************************)
C2_CountConsistency ==
    (Returned /\ CountsAgree(pre.font)) => CountsAgree(res)

\* SubsetKeepRunes on a font with agreeing counts has returned a font with
\* fewer glyphs
C2_Witness ==
    /\ Returned
    /\ call.op = "SubsetKeepRunes"
    /\ CountsAgree(pre.font)
    /\ 0 < res.numGlyphs /\ res.numGlyphs < pre.font.numGlyphs

(***************************************************************************)
(* C3.  After Subset or SubsetFirst has returned, every cmap subtable of    *)
(* the receiver (decoded maps, charcode list, payload) and every name       *)
(* record of the receiver is as it was when the call began.                 *)
(***************************************************************************)
C3_SourceCmapNameUntouched ==
    (call.op \in {"Subset", "SubsetFirst"} /\ Returned) =>
        /\ \A k \in pre.font.cmap.subtables : subtables[k] = pre.subtables[k]
        /\ \A i \in 1..Len(pre.font.name.nameRecords) :
              nameRecs[pre.font.name.nameRecords[i] + 1]
                 = pre.nameRecs[pre.font.name.nameRecords[i] + 1]

(***************************************************************************)
(* C4.  After SubsetKeepIndices has returned, every glyph description of    *)
(* the receiver has the raw bytes it had when the call began.               *)
(***************************************************************************)
C4_SourceGlyfUntouched ==
    (call.op = "SubsetKeepIndices" /\ Returned) =>
        \A g \in PreGids : glyphRaw[font.descs[g + 1] + 1] = PreRaw(g)

(***************************************************************************)
(* C5.  Subset renumbers densely: the result has as many glyphs as          *)
(* LookupRunes returned indices, the first index is 0, glyph k of the       *)
(* result is glyph indices[k] of the receiver, and there is no other glyph. *)
(***************************************************************************)
C5_DenseRenumbering ==
    (call.op = "Subset" /\ Returned) =>
        /\ res.numGlyphs = Len(CallIndices)
        /\ Len(res.descs) = Len(CallIndices)
        /\ CallIndices[1] = 0
        /\ \A k \in 1..Len(CallIndices) : SameGlyph(k - 1, CallIndices[k])

\* a Subset call that moves a glyph to a lower index and leaves a composite
\* glyph's component out
C5_Witness ==
    /\ call.op = "Subset" /\ Returned
    /\ \E k \in 1..Len(CallIndices) :
          /\ CallIndices[k] > k - 1
          /\ PreComponents(CallIndices[k]) \ Range(CallIndices) # {}

(***************************************************************************)
(* C6.  Subset rebuilds the cmap against the new numbering: every input     *)
(* rune that LookupRunes resolves to a glyph g is mapped, by every          *)
(* subtable of the result, to the new index k with indices[k] = g, and      *)
(* charcode 0 is mapped to glyph 0.                                         *)
(***************************************************************************)
C6_CmapRenumbered ==
    (call.op = "Subset" /\ Returned) =>
        LET maps == LookupMaps(pre.font, pre.subtables)
        IN \A name \in res.cmap.subtables :
              /\ Has(subtables[name].cmap, 0) /\ subtables[name].cmap[0] = 0
              /\ \A i \in 1..Len(call.runes) :
                    MapsWith(maps, call.runes[i]) # {} =>
                       /\ Has(subtables[name].cmap, call.runes[i])
                       /\ CallIndices[subtables[name].cmap[call.runes[i]] + 1]
                             = FirstHit(maps, call.runes[i])

(***************************************************************************)
(* C7.  SubsetFirst(n): with n at least the receiver's glyph count the      *)
(* returned font equals the receiver and nothing has been written;          *)
(* otherwise the result has n glyphs, glyph k < n being the receiver's      *)
(* glyph k with its raw bytes, and no glyph from index n on.                *)
(***************************************************************************)
C7_SubsetFirst ==
    (call.op = "SubsetFirst" /\ Returned) =>
        IF call.n >= pre.font.numGlyphs
        THEN /\ res = pre.font
             /\ glyphRaw = pre.glyphRaw
             /\ subtables = pre.subtables
             /\ nameRecs = pre.nameRecs
        ELSE /\ res.numGlyphs = call.n
             /\ Len(res.descs) = call.n
             /\ \A k \in 0..(call.n - 1) : SameGlyph(k, k)

\* a truncation that keeps some glyphs and drops some
C7_Witness ==
    /\ call.op = "SubsetFirst" /\ Returned
    /\ 0 < call.n /\ call.n < pre.font.numGlyphs
    /\ PreRaw(call.n) # NilRaw

(***************************************************************************)
(* C8.  SubsetKeepIndices prunes without renumbering: with E the smallest   *)
(* superset of S closed under components and m its largest element (0 for   *)
(* an empty S), the result has min(old glyph count, m+1) glyphs, every      *)
(* glyph i <= m is the receiver's glyph description i, with its original    *)
(* raw bytes if i is in E and with no bytes if it is not.                   *)
(***************************************************************************)
C8_IndexPreservingPrune ==
    (call.op = "SubsetKeepIndices" /\ Returned) =>
        LET E == Closure(call.indices)
            m == SetMax(E)
        IN /\ res.numGlyphs = Min(pre.font.numGlyphs, m + 1)
           /\ Len(res.descs) = res.numGlyphs
           /\ \A i \in 0..(res.numGlyphs - 1) :
                 /\ res.descs[i + 1] = pre.font.descs[i + 1]
                 /\ i \in E => ResRaw(i) = PreRaw(i)
                 /\ i \notin E => ResRaw(i) = NilRaw

\* a prune that keeps a glyph with bytes, empties a glyph below the largest
\* kept index and cuts the tail
C8_Witness ==
    /\ call.op = "SubsetKeepIndices" /\ Returned
    /\ res.numGlyphs < pre.font.numGlyphs
    /\ \E i \in 0..(res.numGlyphs - 1) : PreRaw(i) # NilRaw /\ ResRaw(i) = NilRaw
    /\ \E i \in 0..(res.numGlyphs - 1) :
          i \notin call.indices /\ ResRaw(i) # NilRaw

(***************************************************************************)
(* C9.  After SubsetFirst(n) with n below the glyph count, no cmap          *)
(* subtable of the result maps a charcode to a glyph index >= n: not in     *)
(* its decoded map, not in its payload; format 4/12 payloads hold exactly   *)
(* the charcodes whose glyph index was below n, and in a format 0/6 array   *)
(* the entries >= n are 0 and the entries < n are unchanged.                *)
(***************************************************************************)
C9_NoGlyphPastCount ==
    (call.op = "SubsetFirst" /\ Returned /\ call.n < pre.font.numGlyphs) =>
        \A name \in res.cmap.subtables :
            LET subt == subtables[name]
                old == pre.subtables[name]
                kept == {p \in Pairs(old.charcodeToGID) : p[2] < call.n}
            IN /\ \A r \in DOMAIN subt.cmap : subt.cmap[r] < call.n
               /\ subt.ctx.type = "cmapSubtableFormat4" =>
                     ExpandFormat4(subt.ctx) \ {<<SentinelCode, 0>>} = kept \ {<<SentinelCode, 0>>}
               /\ subt.ctx.type = "cmapSubtableFormat12" =>
                     ExpandFormat12(subt.ctx) = kept
               /\ subt.ctx.type \in {"cmapSubtableFormat0", "cmapSubtableFormat6"} =>
                     \A i \in 1..Len(old.ctx.glyphIDArray) :
                        subt.ctx.glyphIDArray[i]
                           = IF old.ctx.glyphIDArray[i] >= call.n THEN 0
                             ELSE old.ctx.glyphIDArray[i]

\* the pairs the last call handed to the builder for a subtable
HandedPairs(name) ==
    IF call.op = "Subset"
    THEN Pairs(subtables[name].charcodeToGID)
    ELSE {p \in Pairs(pre.subtables[name].charcodeToGID) : p[2] < call.n}

(***************************************************************************)
(* C10.  Segment round trip: expanding the format 4 (format 12) payload     *)
(* that Subset or SubsetFirst has built gives back exactly the charcode ->  *)
(* glyph index pairs handed to the builder, plus at most the 0xFFFF         *)
(* sentinel entry for format 4.                                             *)
(***************************************************************************)
C10_SegmentRoundTrip ==
    ((call.op = "Subset" \/ (call.op = "SubsetFirst" /\ call.n < pre.font.numGlyphs))
        /\ Returned) =>
        \A name \in res.cmap.subtables :
            LET ctx == subtables[name].ctx
            IN /\ ctx.type = "cmapSubtableFormat4" =>
                     /\ HandedPairs(name) \subseteq ExpandFormat4(ctx)
                     /\ ExpandFormat4(ctx) \subseteq
                           HandedPairs(name) \cup {<<SentinelCode, 0>>}
               /\ ctx.type = "cmapSubtableFormat12" =>
                     ExpandFormat12(ctx) = HandedPairs(name)

(***************************************************************************)
(* Vocabulary of the validation properties.                                *)
(***************************************************************************)

\* the file before its byte was changed
Original ==
    IF changed = NoChange THEN file
    ELSE [file EXCEPT ![changed.offset + 1] = changed.old]

\* ValidateBytes has answered for a file that passed validation before one
\* byte inside a table body was changed
CorruptedAndValidated ==
    /\ changed # NoChange
    /\ changed.offset \in BodyOffsets(Original)
    /\ ValidateBytes(Original) = Ok
    /\ verdict.via # "none"
    /\ verdict.missing = {}

\* the model validate was called on
Validated == Without(parseFont(file).font, verdict.missing)

\* the acceptance condition: directory, offset table and head present, the
\* stored adjustment right for the whole file, every record's checksum right
Accepts(f, data) ==
    /\ f.trec.present /\ f.ot.present /\ f.head.present
    /\ \E h \in 1..Len(f.trec.list) :
          /\ f.trec.list[h].tableTag = "head"
          /\ f.trec.list[h].offset + 12 <= Len(data)
          /\ f.head.checksumAdjustment
                = Sub32(ChecksumMagic,
                        checksum(ZeroAdjustment(data, f.trec.list[h].offset)))
    /\ \A i \in 1..Len(f.trec.list) :
          LET tr == f.trec.list[i]
              b == BytesFrom(data, tr.offset, tr.length)
          IN /\ tr.offset + tr.length <= Len(data)
             /\ tr.checksum = checksum(IF tr.tableTag = "head"
                                       THEN ZeroAdjustment(b, 0) ELSE b)

C12_ValidatorAcceptance ==
    verdict.via = "validate" =>
        /\ verdict.err = Ok <=> Accepts(Validated, file)
        /\ verdict.missing # {} => verdict.err = Err("errRequiredField")

\* validate has accepted a file as written
C12_Witness ==
    /\ verdict.via = "validate"
    /\ verdict.missing = {}
    /\ changed = NoChange
    /\ verdict.err = Ok

(***************************************************************************)
(* Vocabulary of the LookupRunes properties.                               *)
(***************************************************************************)

LookedUp == call.op = "LookupRunes"

\* the search order of the cmap subtables, as (platformID, encodingID)
SearchOrder == <<<<3, 1>>, <<1, 0>>, <<0, 3>>, <<3, 10>>>>

\* the receiver's subtables with the ids at a position of the search order
SubtablesAt(i) ==
    {k \in (IF pre.font.cmap.present THEN pre.font.cmap.subtables ELSE {}) :
        /\ pre.subtables[k].platformID = SearchOrder[i][1]
        /\ pre.subtables[k].encodingID = SearchOrder[i][2]}

\* the positions of the search order at which a subtable holds rune r
HitsAt(r) ==
    {i \in 1..Len(SearchOrder) :
        \E k \in SubtablesAt(i) : Has(pre.subtables[k].cmap, r)}

\* the glyph indices rune r has in the subtables at the first such position
ResolvedTo(r) ==
    IF HitsAt(r) = {} THEN {}
    ELSE LET first == CHOOSE i \in HitsAt(r) : \A j \in HitsAt(r) : i <= j
         IN {pre.subtables[k].cmap[r] :
                k \in {x \in SubtablesAt(first) : Has(pre.subtables[x].cmap, r)}}

\* the runes of the call no subtable of the search order holds
Unmatched == {r \in Range(call.runes) : HitsAt(r) = {}}

C15_PruneTables ==
    call.op = "PruneTables" =>
        /\ call.outcome = "nil"
        /\ font.cmap = IF "cmap" \in Range(call.tables) THEN NoCmap ELSE pre.font.cmap
        /\ font.post = IF "post" \in Range(call.tables) THEN NoPost ELSE pre.font.post
        /\ font.name = IF "name" \in Range(call.tables) THEN NoName ELSE pre.font.name
        /\ \A field \in DOMAIN font \ {"cmap", "post", "name"} :
              font[field] = pre.font[field]
        /\ Range(call.tables) \cap {"cmap", "post", "name"} = {} => font = pre.font
        /\ glyphRaw = pre.glyphRaw
        /\ subtables = pre.subtables
        /\ nameRecs = pre.nameRecs

\* the cmap table and a name PruneTables does not know are pruned from a font
\* that has a cmap and a post table and no name table
C15_Witness ==
    /\ call.op = "PruneTables"
    /\ {"cmap", "glyf"} \subseteq Range(call.tables)
    /\ pre.font.cmap.present /\ ~font.cmap.present
    /\ font.post.present
    /\ ~pre.font.name.present

\* a font with everything its tables point to in the given heaps
FontView(f, raws, subts, recs) ==
    [font |-> f,
     glyphs |-> [i \in 1..Len(f.descs) |-> raws[f.descs[i] + 1]],
     subtables |-> [k \in f.cmap.subtables |-> subts[k]],
     names |-> [i \in 1..Len(f.name.nameRecords) |-> recs[f.name.nameRecords[i] + 1]]]

\* the font held was returned by a subsetting call, and a call that writes
\* to it has returned since
EditedResult ==
    /\ origin.live
    /\ \/ call.op \in {"PruneTables", "Optimize"}
       \/ /\ call.op \in {"Subset", "SubsetFirst", "SubsetKeepIndices", "SubsetKeepRunes"}
          /\ Returned

(***************************************************************************)
(* C16.  Result independence: when g was returned by a subsetting call on  *)
(* f (the no-op case of SubsetFirst included), a later PruneTables,        *)
(* Optimize or subsetting call on g leaves every table of f, and every     *)
(* sequence its tables hold, as it was when g was returned.                *)
(***************************************************************************)
C16_ResultIndependence ==
    EditedResult =>
        FontView(origin.font, glyphRaw, subtables, nameRecs)
            = FontView(origin.then.font, origin.then.glyphRaw,
                       origin.then.subtables, origin.then.nameRecs)

\* the glyph indices scanned by the expansion loop of the call
Scanned == UNION {call.scans[i] : i \in 1..Len(call.scans)}

(***************************************************************************)
(* C17 as stated.  The expansion loop of SubsetKeepIndices ends, also when *)
(* component references form a cycle: no glyph index is on two scan lists, *)
(* so there are at most as many rounds as the font has glyphs.             *)
(***************************************************************************)
C17_RoundsWithinGlyphs ==
    call.op \in {"SubsetKeepIndices", "SubsetKeepRunes"} =>
        /\ \A i, j \in 1..Len(call.scans) :
              i < j => call.scans[i] \cap call.scans[j] = {}
        /\ Len(call.scans) <= Len(pre.font.descs)

(***************************************************************************)
(* C17 as amended.  The expansion loop of SubsetKeepIndices ends, also     *)
(* when component references form a cycle: no glyph index is on two scan   *)
(* lists and no list is empty, so there are at most as many rounds as      *)
(* glyph indices scanned.  That is at most the number of glyphs when the   *)
(* call returns a font (the indices scanned are then the closure of those  *)
(* asked for), and at most one more when it fails on an index past the     *)
(* last glyph.                                                             *)
(***************************************************************************)
C17_ExpansionTerminates ==
    call.op \in {"SubsetKeepIndices", "SubsetKeepRunes"} =>
        /\ \A i, j \in 1..Len(call.scans) :
              i < j => call.scans[i] \cap call.scans[j] = {}
        /\ \A i \in 1..Len(call.scans) : call.scans[i] # {}
        /\ Len(call.scans) <= Cardinality(Scanned)
        /\ Len(call.scans) <= Len(pre.font.descs) + 1
        /\ Returned =>
              /\ Len(call.scans) <= Len(pre.font.descs)
              /\ Scanned = Closure(call.indices)

\* a call that scans a glyph referring to itself and two glyphs referring to
\* each other, in more than one round
C17_Witness ==
    /\ call.op = "SubsetKeepIndices" /\ Returned
    /\ Len(call.scans) > 1
    /\ \E g \in Scanned : g \in PreComponents(g)
    /\ \E g, h \in Scanned :
          g # h /\ h \in PreComponents(g) /\ g \in PreComponents(h)

\* the last call has built the cmap payloads of the font it returned
BuiltPayloads ==
    /\ Returned
    /\ \/ call.op = "Subset"
       \/ call.op = "SubsetFirst" /\ call.n < pre.font.numGlyphs

(***************************************************************************)
(* C18.  Every format 4 payload that Subset or SubsetFirst has built ends  *)
(* with a segment whose endCode is 0xFFFF, also when no charcode was left  *)
(* to encode, and its segCountX2 is twice the number of its segments.      *)
(***************************************************************************)
C18_TerminalSegment ==
    BuiltPayloads =>
        \A name \in res.cmap.subtables :
            LET ctx == subtables[name].ctx
            IN ctx.type = "cmapSubtableFormat4" =>
                  /\ Len(ctx.endCode) > 0
                  /\ ctx.endCode[Len(ctx.endCode)] = SentinelCode
                  /\ ctx.segCountX2 = 2 * Len(ctx.endCode)
                  /\ Len(ctx.startCode) = Len(ctx.endCode)

(***************************************************************************)
(* C19.  In every format 4 and format 12 payload that Subset has built,    *)
(* the segments (groups) are in strictly increasing charcode order and do  *)
(* not overlap: each starts no later than it ends, and ends before the     *)
(* next one starts.                                                        *)
(***************************************************************************)
C19_SegmentsOrdered ==
    (call.op = "Subset" /\ Returned) =>
        \A name \in res.cmap.subtables :
            LET ctx == subtables[name].ctx
            IN /\ ctx.type = "cmapSubtableFormat4" =>
                     \A s \in 1..Len(ctx.endCode) :
                        /\ ctx.startCode[s] <= ctx.endCode[s]
                        /\ s < Len(ctx.endCode) => ctx.endCode[s] < ctx.startCode[s + 1]
               /\ ctx.type = "cmapSubtableFormat12" =>
                     \A s \in 1..Len(ctx.groups) :
                        /\ ctx.groups[s].startCharCode <= ctx.groups[s].endCharCode
                        /\ s < Len(ctx.groups) =>
                              ctx.groups[s].endCharCode < ctx.groups[s + 1].startCharCode

(***************************************************************************)
(* C20.  LookupRunes does not depend on the order of its input or on       *)
(* repetitions in it: every list of the same runes gives the same glyph    *)
(* indices and the same runes.                                             *)
(***************************************************************************)
C20_OrderInsensitive ==
    LookedUp =>
        \A other \in RuneInputs :
            Range(other) = Range(call.runes) =>
                LookupRunes(pre.font, pre.subtables, other) = call.looked

(***************************************************************************)
(* C21.  The loca table of every font a subsetting call returns is a       *)
(* running sum: its first offset is the receiver's first offset, the       *)
(* offsets never decrease, and offset i+1 exceeds offset i by the raw byte *)
(* length of glyph i of the result (long offsets), by half that length     *)
(* (short offsets, no 16-bit sum wrapping).                                *)
(***************************************************************************)
C21_LocaRunningSum ==
    Returned =>
        LET offsets == ActiveOffsets(res)
        IN /\ Len(offsets) = Len(res.descs) + 1
           /\ offsets[1] = ActiveOffsets(pre.font)[1]
           /\ \A i \in 1..Len(res.descs) :
                 /\ offsets[i] <= offsets[i + 1]
                 /\ IF res.indexToLocFormat = 0
                    THEN 2 * (offsets[i + 1] - offsets[i]) = Len(ResRaw(i - 1))
                    ELSE offsets[i + 1] - offsets[i] = Len(ResRaw(i - 1))

\* a call on a font with short offsets has returned a font in which a glyph
\* has moved to a lower index and a longer glyph is followed by a shorter one
C21_Witness ==
    /\ Returned
    /\ res.indexToLocFormat = 0
    /\ \E k \in 1..Len(res.descs) : res.descs[k] # pre.font.descs[k]
    /\ \E k \in 1..(Len(res.descs) - 1) :
          Len(ResRaw(k - 1)) > Len(ResRaw(k)) /\ Len(ResRaw(k)) > 0

(***************************************************************************)
(* C22.  Subset reprojects the post name data through the looked-up        *)
(* indices: each list of the receiver's post table that is longer than the *)
(* new glyph count has, at every new glyph k, the receiver's entry at      *)
(* indices[k] (glyphNameIndex, offsets, glyphNames), and a non-zero        *)
(* post.numGlyphs becomes the new glyph count.                             *)
(***************************************************************************)
C22_PostReprojected ==
    (call.op = "Subset" /\ Returned /\ pre.font.post.present) =>
        LET old == pre.font.post
            n == Len(CallIndices)
        IN /\ old.numGlyphs > 0 => res.post.numGlyphs = n
           /\ Len(old.glyphNameIndex) > n =>
                 /\ Len(res.post.glyphNameIndex) = n
                 /\ \A k \in 1..n :
                       res.post.glyphNameIndex[k] = old.glyphNameIndex[CallIndices[k] + 1]
           /\ Len(old.offsets) > n =>
                 /\ Len(res.post.offsets) = n
                 /\ \A k \in 1..n : res.post.offsets[k] = old.offsets[CallIndices[k] + 1]
           /\ Len(old.glyphNames) > n =>
                 /\ Len(res.post.glyphNames) = n
                 /\ \A k \in 1..n : res.post.glyphNames[k] = old.glyphNames[CallIndices[k] + 1]

\* the horizontal metric of glyph gid of a font: its entry of hMetrics, or,
\* past them, the last advance width with the glyph's own left side bearing
MetricOf(f, gid) ==
    IF gid < Len(f.hMetrics) THEN f.hMetrics[gid + 1]
    ELSE HM(f.hMetrics[Len(f.hMetrics)].advanceWidth,
            f.leftSideBearings[gid - Len(f.hMetrics) + 1])

(***************************************************************************)
(* C23.  Subset re-selects the horizontal metrics: new glyph k has the     *)
(* advance width and the left side bearing that glyph indices[k] had in    *)
(* the receiver; for a glyph past the receiver's hMetrics that is the last *)
(* advance width with the glyph's own left side bearing.                   *)
(***************************************************************************)
C23_MetricsReselected ==
    (call.op = "Subset" /\ Returned) =>
        \A k \in 1..Len(CallIndices) :
            MetricOf(res, k - 1) = MetricOf(pre.font, CallIndices[k])

(***************************************************************************)
(* Properties of parsePost.                                                *)
(***************************************************************************)

\* what the parsed input holds: whether there is a post table with a whole
\* header, its version, and for versions 2.0 and 2.5 the declared count
PostGiven == parsing.list # << >> /\ Len(parsing.data) >= 32
PostVersion == Uint32At(parsing.data, 0)
PostCounted ==
    /\ PostGiven
    /\ PostVersion \in {<<2, 0>>, <<2, 20480>>}
    /\ Len(parsing.data) >= 34
PostDeclared == Uint16At(parsing.data, 32)

\* glyph i's (1-based) name index of a version 2.0 input and resolved
\* standard-name index of a version 2.5 input
PostIndex(i) == Uint16At(parsing.data, 34 + 2 * (i - 1))
PostResolved(i) == (i - 1) + 1 + Int8(parsing.data[34 + i])

\* C24: parsing a version 1.0 post table of a font with 258 glyphs succeeds
\* and gives glyph i the standard Macintosh name i, 258 names in all.
C24_Version10Named ==
    (/\ parsing.done
     /\ parsing.maxp.present
     /\ parsing.maxp.numGlyphs = MacGlyphCount
     /\ PostGiven
     /\ PostVersion = <<1, 0>>) =>
        /\ parsing.out.err = Ok
        /\ parsing.out.table.present
        /\ parsing.out.table.glyphNames =
              [i \in 1..MacGlyphCount |-> MacGlyphName(i - 1)]

\* C25: parsePost fails with errRequiredField when maxp is nil, returns no
\* table and no error when there is a maxp but no post table, and fails with
\* errRangeCheck, returning no table, whenever a version 2.0 or 2.5 table
\* declares a glyph count other than that of maxp.
C25_CountChecksFailFast ==
    parsing.done =>
        /\ ~parsing.maxp.present =>
              /\ parsing.out.err = Err("errRequiredField")
              /\ ~parsing.out.table.present
        /\ (parsing.maxp.present /\ parsing.list = << >>) =>
              /\ parsing.out.err = Ok
              /\ ~parsing.out.table.present
        /\ (/\ parsing.maxp.present
            /\ PostCounted
            /\ PostDeclared # parsing.maxp.numGlyphs) =>
              /\ parsing.out.err = Err("errRangeCheck")
              /\ ~parsing.out.table.present

\* a version 2.0 table with well-formed names behind a glyph count that is
\* not that of maxp has been parsed
C25_Witness ==
    /\ parsing.done
    /\ parsing.maxp.present
    /\ PostCounted
    /\ PostVersion = <<2, 0>>
    /\ PostDeclared = 1
    /\ parsing.maxp.numGlyphs = 2
    /\ PostIndex(1) = MacGlyphCount
    /\ Len(parsing.data) > 36
    /\ parsing.list[1].length = Len(parsing.data)
    /\ parsing.out.err = Err("errRangeCheck")

\* C26: a post table of version 2.0 or 2.5 is parsed without error only if
\* every glyph's name index is within its bound, and then an index below
\* 258 resolves to that standard name and an index from 258 on (version 2.0)
\* to a name of the table; an index outside its bound is a parse error.
C26_NameIndexChecked ==
    (/\ parsing.done
     /\ PostCounted
     /\ parsing.out.err = Ok) =>
        LET names == parsing.out.table.glyphNames
        IN /\ Len(names) = PostDeclared
           /\ \A i \in 1..PostDeclared :
                 IF PostVersion = <<2, 0>>
                 THEN IF PostIndex(i) < MacGlyphCount
                      THEN names[i] = MacGlyphName(PostIndex(i))
                      ELSE names[i].kind = "own"
                 ELSE /\ PostResolved(i) \in 0..(MacGlyphCount - 1)
                      /\ names[i] = MacGlyphName(PostResolved(i))

(***************************************************************************)
(* Properties of the cmap directory after Subset.                          *)
(***************************************************************************)

\* where a subtable name stands in a list of names (0 when it is not there)
KeyPosition(keys, k) ==
    IF k \in Range(keys) THEN CHOOSE i \in 1..Len(keys) : keys[i] = k ELSE 0

\* the receiver's subtable names of format 4 or 12
KeptFormats == {4, 12}
SourceKeysKept ==
    {k \in Range(pre.font.cmap.subtableKeys) : pre.subtables[k].format \in KeptFormats}

\* C27: after Subset the result's subtableKeys lists the receiver's format 4
\* and format 12 subtables, each once and in the receiver's order, format 0
\* and format 6 subtables being left out; the subtables map has exactly those
\* keys and numTables is their number.
C27_CmapDirectoryKept ==
    (call.op = "Subset" /\ Returned /\ pre.font.cmap.present) =>
        LET keys == res.cmap.subtableKeys
        IN /\ res.cmap.present
           /\ Range(keys) = SourceKeysKept
           /\ Len(keys) = Cardinality(SourceKeysKept)
           /\ \A i, j \in 1..Len(keys) :
                 i < j => KeyPosition(pre.font.cmap.subtableKeys, keys[i])
                             < KeyPosition(pre.font.cmap.subtableKeys, keys[j])
           /\ res.cmap.subtables = SourceKeysKept
           /\ res.cmap.numTables = Cardinality(SourceKeysKept)

\* Subset returned a font made from one with a format 0 subtable listed
\* before a format 4 and a format 12 subtable, both of which are kept
C27_Witness ==
    /\ call.op = "Subset"
    /\ Returned
    /\ pre.font.cmap.present
    /\ Len(pre.font.cmap.subtableKeys) = 3
    /\ pre.subtables[pre.font.cmap.subtableKeys[1]].format = 0
    /\ Len(res.cmap.subtableKeys) = 2
    /\ res.cmap.subtableKeys = Tail(pre.font.cmap.subtableKeys)
    /\ res.numGlyphs > 1

====
